---- MODULE Spec2Model ----
(***************************************************************************)
(* The LC-3 virtual machine of y2klc3tools: the abstract VM of vm_abc.py   *)
(* (Memory, Registers, RunningState, Output, VM) with the in-memory        *)
(* backend of pyvm.py (PyMemory, PyRegisters, PyRunningState, PyOutput,    *)
(* PyVM and the opcode and trap handlers).                                 *)
(*                                                                         *)
(* Text is held as the sequence of its character codes, so that the        *)
(* `+=` of PyOutput._write is sequence concatenation.  Memory, an array of *)
(* UINT16_MAX words that are all zero at construction, is held as the      *)
(* finite map of its non-zero cells.  The host is little-endian (array     *)
(* type code "H" reads a byte pair low byte first).                        *)
(***************************************************************************)
EXTENDS Integers, Sequences, FiniteSets, TLC

(***************************************************************************)
(* Constants of the package                                                *)
(***************************************************************************)
\* y2klc3tools/__init__.py is not among the sources; 2^16 is the value the
\* data model gives memory (65 536 cells) and register arithmetic (mod 2^16).
UINT16_MAX == 65536

\* 0x3000
PC_START == 12288

\* vm_def.py, class R
R0 == 0
R1 == 1
R2 == 2
R3 == 3
R4 == 4
R5 == 5
R6 == 6
R7 == 7
PC == 8
COND == 9

R == 0 .. 9

\* vm_def.py, class OP
OP_BR == 0
OP_ADD == 1
OP_LD == 2
OP_ST == 3
OP_JSR == 4
OP_AND == 5
OP_LDR == 6
OP_STR == 7
OP_RTI == 8
OP_NOT == 9
OP_LDI == 10
OP_STI == 11
OP_JMP == 12
OP_RES == 13
OP_LEA == 14
OP_TRAP == 15

\* vm_def.py, class Trap
Trap_GETC == 32
Trap_OUT == 33
Trap_PUTS == 34
Trap_IN == 35
Trap_PUTSP == 36
Trap_HALT == 37

Trap == Trap_GETC .. Trap_HALT

\* vm_def.py, class FL
FL_POS == 1
FL_ZRO == 2
FL_NEG == 4

(***************************************************************************)
(* Python's integer operators on non-negative operands                     *)
(***************************************************************************)
RECURSIVE BitAnd(_, _)
BitAnd(a, b) ==
    IF a = 0 \/ b = 0 THEN 0
    ELSE (a % 2) * (b % 2) + 2 * BitAnd(a \div 2, b \div 2)

RECURSIVE BitOr(_, _)
BitOr(a, b) ==
    IF a = 0 THEN b
    ELSE IF b = 0 THEN a
    ELSE (IF a % 2 = 1 \/ b % 2 = 1 THEN 1 ELSE 0) + 2 * BitOr(a \div 2, b \div 2)

ShiftR(x, n) == x \div (2 ^ n)

ShiftL(x, n) == x * (2 ^ n)

\* ~x of a Python int
BitNot(x) == (0 - x) - 1

\* a sequence given as a function on 1 .. n, as a tuple
AsTuple(f) == SubSeq(f, 1, Len(f))

(***************************************************************************)
(* Text: the character codes of the literals the VM writes                 *)
(***************************************************************************)
\* '-- RESET --\n'
TEXT_RESET == <<45, 45, 32, 82, 69, 83, 69, 84, 32, 45, 45, 10>>

\* '-- HALTED --\n'
TEXT_HALTED == <<45, 45, 32, 72, 65, 76, 84, 69, 68, 32, 45, 45, 10>>

\* '-- HALT --\n'
TEXT_HALT == <<45, 45, 32, 72, 65, 76, 84, 32, 45, 45, 10>>

\* 'Enter a character: '
TEXT_PROMPT == <<69, 110, 116, 101, 114, 32, 97, 32, 99, 104, 97, 114, 97, 99,
                 116, 101, 114, 58, 32>>

\* print(text): the text and the line end print adds
py_print(text) == text \o <<10>>

(***************************************************************************)
(* PyMemory                                                                *)
(***************************************************************************)
\* PyMemory.__init__: every cell is zero
PyMemory_init == << >>

\* PyMemory.__getitem__
MemGet(m, address) ==
    LET a == address % UINT16_MAX
    IN IF a \in DOMAIN m THEN m[a] ELSE 0

\* PyMemory.__setitem__
MemSet(m, address, val) ==
    LET a == address % UINT16_MAX
        d == IF val = 0 THEN DOMAIN m \ {a} ELSE DOMAIN m \cup {a}
    IN [x \in d |-> IF x = a THEN val ELSE m[x]]

\* Memory.__len__
MemLen == UINT16_MAX

(***************************************************************************)
(* Memory.load_binary                                                      *)
(***************************************************************************)
\* int.from_bytes(bs, byteorder='big')
RECURSIVE from_bytes_big(_)
from_bytes_big(bs) ==
    IF Len(bs) = 0 THEN 0
    ELSE 256 * from_bytes_big(SubSeq(bs, 1, Len(bs) - 1)) + bs[Len(bs)]

\* image_binary[:2]
ImageHead(image) == SubSeq(image, 1, IF Len(image) < 2 THEN Len(image) ELSE 2)

\* image_binary[2:]
ImagePayload(image) == SubSeq(image, 3, Len(image))

\* array.array("H", payload) on a little-endian host: item i is the byte
\* pair (2i, 2i+1) read low byte first
array_H(payload) ==
    AsTuple([i \in 1 .. (Len(payload) \div 2) |->
                payload[2 * i - 1] + 256 * payload[2 * i]])

\* array.byteswap(): the two bytes of every item change places
byteswap(words) ==
    AsTuple([i \in 1 .. Len(words) |->
                (words[i] % 256) * 256 + (words[i] \div 256)])

\* Memory.load_words_at_address: self[address + i] = words[i] for every i.
\* The addresses are distinct and below UINT16_MAX (the assertion), so the
\* loop's result is given cell by cell.
load_words_at_address(m, words, address) ==
    LET n == Len(words)
        covered == address .. (address + n - 1)
        nonzero == {a \in covered : words[a - address + 1] # 0}
        d == (DOMAIN m \ covered) \cup nonzero
    IN [a \in d |-> IF a \in covered THEN words[a - address + 1] ELSE m[a]]

EXC_NONE == "none"
EXC_TOO_BIG == "Image file too big to load."
EXC_ODD == "Image file doesn't map to a whole number of 2 byte words."
EXC_ASSERT == "AssertionError"

EXC_VALUE == "ValueError: bytes length not a multiple of item size"

\* Memory.load_binary without memory.byteswap()
load_binary_noswap(m, image_binary) ==
    LET origin == from_bytes_big(ImageHead(image_binary))
        payload == ImagePayload(image_binary)
        max_read == (UINT16_MAX - origin) * 2
    IN IF Len(payload) > max_read
       THEN [mem |-> m, exc |-> EXC_TOO_BIG]
       ELSE IF Len(payload) % 2 # 0
       THEN [mem |-> m, exc |-> EXC_ODD]
       ELSE LET words == array_H(payload)
            IN IF ~(Len(words) + origin <= UINT16_MAX)
               THEN [mem |-> m, exc |-> EXC_ASSERT]
               ELSE [mem |-> load_words_at_address(m, words, origin),
                     exc |-> EXC_NONE]

\* Memory.load_binary with a max_read one word too long
load_binary_slack(m, image_binary) ==
    LET origin == from_bytes_big(ImageHead(image_binary))
        payload == ImagePayload(image_binary)
        max_read == (UINT16_MAX + 1 - origin) * 2
    IN IF Len(payload) > max_read
       THEN [mem |-> m, exc |-> EXC_TOO_BIG]
       ELSE IF Len(payload) % 2 # 0
       THEN [mem |-> m, exc |-> EXC_ODD]
       ELSE LET words == byteswap(array_H(payload))
            IN IF ~(Len(words) + origin <= UINT16_MAX)
               THEN [mem |-> m, exc |-> EXC_ASSERT]
               ELSE [mem |-> load_words_at_address(m, words, origin),
                     exc |-> EXC_NONE]

\* Memory.load_binary without the test of the payload's parity: array.array
\* refuses the odd payload
load_binary_unchecked(m, image_binary) ==
    LET origin == from_bytes_big(ImageHead(image_binary))
        payload == ImagePayload(image_binary)
        max_read == (UINT16_MAX - origin) * 2
    IN IF Len(payload) > max_read
       THEN [mem |-> m, exc |-> EXC_TOO_BIG]
       ELSE IF Len(payload) % 2 # 0
       THEN [mem |-> m, exc |-> EXC_VALUE]
       ELSE LET words == byteswap(array_H(payload))
            IN IF ~(Len(words) + origin <= UINT16_MAX)
               THEN [mem |-> m, exc |-> EXC_ASSERT]
               ELSE [mem |-> load_words_at_address(m, words, origin),
                     exc |-> EXC_NONE]

\* Memory.load_binary that writes the whole words of the payload before it
\* tests the payload's parity
load_binary_eager(m, image_binary) ==
    LET origin == from_bytes_big(ImageHead(image_binary))
        payload == ImagePayload(image_binary)
        max_read == (UINT16_MAX - origin) * 2
    IN IF Len(payload) > max_read
       THEN [mem |-> m, exc |-> EXC_TOO_BIG]
       ELSE IF Len(payload) % 2 # 0
       THEN [mem |-> load_words_at_address(m, byteswap(array_H(payload)), origin),
             exc |-> EXC_ODD]
       ELSE LET words == byteswap(array_H(payload))
            IN IF ~(Len(words) + origin <= UINT16_MAX)
               THEN [mem |-> m, exc |-> EXC_ASSERT]
               ELSE [mem |-> load_words_at_address(m, words, origin),
                     exc |-> EXC_NONE]

\* Memory.load_binary: the memory afterwards and the exception raised
load_binary(m, image_binary) ==
    LET origin == from_bytes_big(ImageHead(image_binary))
        payload == ImagePayload(image_binary)
        max_read == (UINT16_MAX - origin) * 2
    IN IF Len(payload) > max_read
       THEN [mem |-> m, exc |-> EXC_TOO_BIG]
       ELSE IF Len(payload) % 2 # 0
       THEN [mem |-> m, exc |-> EXC_ODD]
       ELSE LET words == byteswap(array_H(payload))
            IN IF ~(Len(words) + origin <= UINT16_MAX)
               THEN [mem |-> m, exc |-> EXC_ASSERT]
               ELSE [mem |-> load_words_at_address(m, words, origin),
                     exc |-> EXC_NONE]

(***************************************************************************)
(* vm.py: Memory, the memory of the VM of vm.py.  Its array is kept as the *)
(* cells that are not zero and its length.                                 *)
(***************************************************************************)
\* Memory.__init__
vm_Memory_init == [cells |-> << >>, len |-> UINT16_MAX]

\* Memory.load_binary of vm.py: the array is made anew, origin zeros long,
\* before the size of the image is tested; the image is appended and the
\* array padded to UINT16_MAX after the tests
vm_Memory_load_binary(image_binary) ==
    LET origin == from_bytes_big(ImageHead(image_binary))
        front == [cells |-> << >>, len |-> origin]
        payload == ImagePayload(image_binary)
        max_read == (UINT16_MAX - origin) * 2
    IN IF Len(payload) > max_read
       THEN [memory |-> front, exc |-> EXC_TOO_BIG]
       ELSE IF Len(payload) % 2 # 0
       THEN [memory |-> front, exc |-> EXC_ODD]
       ELSE LET words == byteswap(array_H(payload))
            IN [memory |->
                  [cells |-> load_words_at_address(<< >>, words, origin),
                   len |-> origin + Len(words)
                             + (UINT16_MAX - (origin + Len(words)))],
                exc |-> EXC_NONE]

EXC_INDEX == "IndexError: array assignment index out of range"

\* Memory.__setitem__ of vm.py: the array refuses an index it does not have
\* and a value an unsigned short cannot hold
vm_Memory_setitem(m, address, val) ==
    LET a == address % UINT16_MAX
    IN IF a >= m.len THEN [memory |-> m, exc |-> EXC_INDEX]
       ELSE IF val \notin 0 .. 65535
       THEN [memory |-> m, exc |-> "OverflowError: unsigned short is out of range"]
       ELSE [memory |-> [m EXCEPT !.cells = MemSet(m.cells, a, val)],
             exc |-> EXC_NONE]

(***************************************************************************)
(* PyRegisters                                                             *)
(***************************************************************************)
\* PyRegisters.__setitem__ with the modulus one short
RegSet_short(rg, key, value) == [rg EXCEPT ![key] = value % (UINT16_MAX - 1)]

\* PyRegisters.__setitem__
RegSet(rg, key, value) == [rg EXCEPT ![key] = value % UINT16_MAX]

\* Registers.reset without the write of COND
Registers_reset_flagless(rg) ==
    LET zeroed == [r \in R |-> RegSet(rg, r, 0)[r]]
    IN RegSet(zeroed, PC, PC_START)

\* Registers.reset without the loop that zeroes every register
Registers_reset_pc(rg) == RegSet(RegSet(rg, PC, PC_START), COND, FL_POS)

\* Registers.reset, on the registers PyRegisters.__init__ creates or on any
\* later ones
Registers_reset(rg) ==
    LET zeroed == [r \in R |-> RegSet(rg, r, 0)[r]]
    IN RegSet(RegSet(zeroed, PC, PC_START), COND, FL_POS)

\* Registers.values
Registers_values(rg) == [i \in 1 .. 10 |-> rg[i - 1]]

\* Registers.save_trace
save_trace(tr, rg) == Append(tr, Registers_values(rg))

(***************************************************************************)
(* PyOutput                                                                *)
(***************************************************************************)
\* PyOutput.__init__: defaultdict(str)
PyOutput_init == [output |-> << >>, error |-> << >>]

\* Output.write
out_write(o, text) == [o EXCEPT !.output = @ \o text]

\* Output.write_err
out_write_err(o, text) == [o EXCEPT !.error = @ \o text]

(***************************************************************************)
(* pyvm.py: helpers of the opcode handlers                                 *)
(***************************************************************************)
\* sign_extend without the final x & 0xFFFF
sign_extend_unmasked(x, bit_count) ==
    IF BitAnd(ShiftR(x, bit_count - 1), 1) # 0
    THEN BitOr(x, ShiftL(65535, bit_count))
    ELSE x

sign_extend(x, bit_count) ==
    LET y == IF BitAnd(ShiftR(x, bit_count - 1), 1) # 0
             THEN BitOr(x, ShiftL(65535, bit_count))
             ELSE x
    IN BitAnd(y, 65535)

\* update_flags without the test of bit 15
update_flags_unsigned(r, rg) ==
    IF rg[r] = 0 THEN RegSet(rg, COND, FL_ZRO)
    ELSE RegSet(rg, COND, FL_POS)

update_flags(r, rg) ==
    IF rg[r] = 0 THEN RegSet(rg, COND, FL_ZRO)
    ELSE IF ShiftR(rg[r], 15) # 0 THEN RegSet(rg, COND, FL_NEG)
    ELSE RegSet(rg, COND, FL_POS)

\* (instr >> 9) & 0x7
Field9(instr) == BitAnd(ShiftR(instr, 9), 7)

\* (instr >> 6) & 0x7
Field6(instr) == BitAnd(ShiftR(instr, 6), 7)

(***************************************************************************)
(* pyvm.py: opcode handlers.  A handler of registers alone gives the new   *)
(* registers; the stores give the new memory.                              *)
(***************************************************************************)
\* add that copies SR1 to DR and then adds the second operand to DR
add_in_place(instr, rg) ==
    LET r0 == Field9(instr)
        r1 == Field6(instr)
        imm_flag == BitAnd(ShiftR(instr, 5), 1)
        imm5 == sign_extend(BitAnd(instr, 31), 5)
        r2 == BitAnd(instr, 7)
        copied == RegSet(rg, r0, rg[r1])
        written == IF imm_flag # 0
                   THEN RegSet(copied, r0, copied[r0] + imm5)
                   ELSE RegSet(copied, r0, copied[r0] + copied[r2])
    IN update_flags(r0, written)

add(instr, rg) ==
    LET r0 == Field9(instr)
        r1 == Field6(instr)
        imm_flag == BitAnd(ShiftR(instr, 5), 1)
        imm5 == sign_extend(BitAnd(instr, 31), 5)
        r2 == BitAnd(instr, 7)
        written == IF imm_flag # 0
                   THEN RegSet(rg, r0, rg[r1] + imm5)
                   ELSE RegSet(rg, r0, rg[r1] + rg[r2])
    IN update_flags(r0, written)

\* ldi that stops at the pointer
ldi_direct(instr, rg, m) ==
    LET r0 == Field9(instr)
        pc_offset == sign_extend(BitAnd(instr, 511), 9)
    IN update_flags(r0, RegSet(rg, r0, MemGet(m, rg[PC] + pc_offset)))

ldi(instr, rg, m) ==
    LET r0 == Field9(instr)
        pc_offset == sign_extend(BitAnd(instr, 511), 9)
    IN update_flags(r0, RegSet(rg, r0, MemGet(m, MemGet(m, rg[PC] + pc_offset))))

and_(instr, rg) ==
    LET r0 == Field9(instr)
        r1 == Field6(instr)
        r2 == BitAnd(instr, 7)
        imm_flag == BitAnd(ShiftR(instr, 5), 1)
        imm5 == sign_extend(BitAnd(instr, 31), 5)
        written == IF imm_flag # 0
                   THEN RegSet(rg, r0, BitAnd(rg[r1], imm5))
                   ELSE RegSet(rg, r0, BitAnd(rg[r1], rg[r2]))
    IN update_flags(r0, written)

not_(instr, rg) ==
    LET r0 == Field9(instr)
        r1 == Field6(instr)
    IN update_flags(r0, RegSet(rg, r0, BitNot(rg[r1])))

\* br with the condition taken from bits 11..9 alone
br_mask(instr, rg) ==
    LET pc_offset == sign_extend(BitAnd(instr, 511), 9)
        cond_flag == Field9(instr)
    IN IF cond_flag # 0
       THEN RegSet(rg, PC, rg[PC] + pc_offset)
       ELSE rg

br(instr, rg) ==
    LET pc_offset == sign_extend(BitAnd(instr, 511), 9)
        cond_flag == Field9(instr)
    IN IF BitAnd(cond_flag, rg[COND]) # 0
       THEN RegSet(rg, PC, rg[PC] + pc_offset)
       ELSE rg

jmp(instr, rg) ==
    LET r1 == Field6(instr)
    IN RegSet(rg, PC, rg[r1])

jsr(instr, rg) ==
    LET r1 == Field6(instr)
        long_pc_offset == sign_extend(BitAnd(instr, 2047), 11)
        long_flag == BitAnd(ShiftR(instr, 11), 1)
        saved == RegSet(rg, R7, rg[PC])
    IN IF long_flag # 0
       THEN RegSet(saved, PC, saved[PC] + long_pc_offset)
       ELSE RegSet(saved, PC, saved[r1])

ld(instr, rg, m) ==
    LET r0 == Field9(instr)
        pc_offset == sign_extend(BitAnd(instr, 511), 9)
    IN update_flags(r0, RegSet(rg, r0, MemGet(m, rg[PC] + pc_offset)))

ldr(instr, rg, m) ==
    LET r0 == Field9(instr)
        r1 == Field6(instr)
        offset == sign_extend(BitAnd(instr, 63), 6)
    IN update_flags(r0, RegSet(rg, r0, MemGet(m, rg[r1] + offset)))

lea(instr, rg) ==
    LET r0 == Field9(instr)
        pc_offset == sign_extend(BitAnd(instr, 511), 9)
    IN update_flags(r0, RegSet(rg, r0, rg[PC] + pc_offset))

st(instr, rg, m) ==
    LET r0 == Field9(instr)
        pc_offset == sign_extend(BitAnd(instr, 511), 9)
    IN MemSet(m, rg[PC] + pc_offset, rg[r0])

sti(instr, rg, m) ==
    LET r0 == Field9(instr)
        pc_offset == sign_extend(BitAnd(instr, 511), 9)
    IN MemSet(m, MemGet(m, rg[PC] + pc_offset), rg[r0])

str_(instr, rg, m) ==
    LET r0 == Field9(instr)
        r1 == Field6(instr)
        offset == sign_extend(BitAnd(instr, 63), 6)
    IN MemSet(m, rg[r1] + offset, rg[r0])

(***************************************************************************)
(* vm.py: the stores of the VM of vm.py.  A subscription mem[k] hands      *)
(* Memory.__getitem__ the key <<k>>, and mem[k, v] hands it the tuple      *)
(* <<k, v>>.                                                               *)
(***************************************************************************)
KBSR == 65024
KBDR == 65026

\* sign_extend of vm.py
vm_sign_extend(x, bit_count) ==
    IF BitAnd(ShiftR(x, bit_count - 1), 1) # 0
    THEN BitAnd(BitOr(x, ShiftL(65535, bit_count)), 65535)
    ELSE BitAnd(x, 65535)

\* Memory.__getitem__ of vm.py: a tuple has no remainder; a read of KBSR
\* polls first, ready being what check_key() answers and ch what getchar()
\* reads
vm_Memory_getitem(m, key, ready, ch) ==
    IF Len(key) # 1
    THEN [memory |-> m, val |-> 0, exc |-> "TypeError"]
    ELSE LET address == key[1] % UINT16_MAX
             status == [m EXCEPT !.cells = MemSet(m.cells, KBSR, ShiftL(1, 15))]
             polled == IF address # KBSR THEN m
                       ELSE IF ready
                       THEN [m EXCEPT !.cells = MemSet(status.cells, KBDR, ch)]
                       ELSE [m EXCEPT !.cells = MemSet(m.cells, KBSR, 0)]
         IN IF address >= m.len \/ (address = KBSR /\ KBDR >= m.len)
            THEN [memory |-> m, val |-> 0,
                  exc |-> "IndexError: array index out of range"]
            ELSE IF address = KBSR /\ ready /\ ch = 3
            THEN [memory |-> status, val |-> 0, exc |-> "SystemExit: 130"]
            ELSE [memory |-> polled, val |-> MemGet(polled.cells, address),
                  exc |-> "none"]

\* st of vm.py
vm_st(instr, rg, m, ready, ch) ==
    LET r0 == BitAnd(ShiftR(instr, 9), 7)
        pc_offset == vm_sign_extend(BitAnd(instr, 511), 9)
    IN vm_Memory_getitem(m, <<rg[PC] + pc_offset, rg[r0]>>, ready, ch)

\* sti of vm.py
vm_sti(instr, rg, m, ready, ch) ==
    LET r0 == BitAnd(ShiftR(instr, 9), 7)
        pc_offset == vm_sign_extend(BitAnd(instr, 511), 9)
        pointer == vm_Memory_getitem(m, <<rg[PC] + pc_offset>>, ready, ch)
    IN IF pointer.exc # "none" THEN pointer
       ELSE vm_Memory_getitem(pointer.memory, <<pointer.val, rg[r0]>>, ready, ch)

\* str_ of vm.py
vm_str_(instr, rg, m, ready, ch) ==
    LET r0 == BitAnd(ShiftR(instr, 9), 7)
        r1 == BitAnd(ShiftR(instr, 6), 7)
        offset == vm_sign_extend(BitAnd(instr, 63), 6)
    IN vm_Memory_getitem(m, <<rg[r1] + offset, rg[r0]>>, ready, ch)

\* VM.step of vm.py when the instruction fetched is ST, STI or STR; s holds
\* the global reg, vm.memory, vm.runstate and vm.reg_trace ('-- HALTED --'
\* goes to sys.stderr)
vm_VM_step(s, tracing, ready, ch) ==
    IF ~s.is_running THEN s
    ELSE LET t == IF tracing
                  THEN [s EXCEPT !.traces = Append(s.traces, Registers_values(s.reg))]
                  ELSE s
             fetched == vm_Memory_getitem(t.memory, <<t.reg[PC]>>, ready, ch)
             instr == fetched.val
             rg == RegSet(t.reg, PC, t.reg[PC] + 1)
             op == ShiftR(instr, 12)
             r == IF op = OP_ST THEN vm_st(instr, rg, fetched.memory, ready, ch)
                  ELSE IF op = OP_STI
                  THEN vm_sti(instr, rg, fetched.memory, ready, ch)
                  ELSE vm_str_(instr, rg, fetched.memory, ready, ch)
         IN IF fetched.exc # "none"
            THEN [t EXCEPT !.memory = fetched.memory, !.exc = fetched.exc]
            ELSE [t EXCEPT !.reg = rg, !.memory = r.memory, !.exc = r.exc]

(***************************************************************************)
(* pyvm.py: traps.  A machine is the record of what a step can change:     *)
(* reg, mem, is_running, out, stdout (the process's standard output) and   *)
(* exc, the exception that leaves the step.                                *)
(***************************************************************************)
EXC_BAD_OPCODE == "Bad opcode"
EXC_BAD_TRAP == "ValueError: not a valid Trap"
EXC_EXIT == "SystemExit: 130"

\* the key code on which getchar ends the process
CTRL_C == 3

trap_getc(s, ch) ==
    IF ch = CTRL_C THEN [s EXCEPT !.exc = EXC_EXIT]
    ELSE [s EXCEPT !.reg = RegSet(s.reg, R0, ch)]

trap_out(s) ==
    [s EXCEPT !.out = out_write(s.out, <<BitAnd(s.reg[R0], 255)>>)]

\* The words the loop of trap_puts and trap_putsp meets from address i:
\* those before the first zero word, or before len(mem) when there is none
string_end(m, i) ==
    LET stops == {a \in {i} \cup {b + 1 : b \in {c \in DOMAIN m : c >= i}} :
                     a \notin DOMAIN m}
        first == CHOOSE a \in stops : \A b \in stops : a <= b
    IN IF first > MemLen THEN MemLen ELSE first

string_at(m, i) ==
    IF i >= MemLen THEN << >>
    ELSE [k \in 1 .. (string_end(m, i) - i) |-> MemGet(m, i + k - 1)]

\* trap_puts with the test of the zero word after the write
trap_puts_through(s) ==
    LET i == s.reg[R0]
        e == string_end(s.mem, i)
        more == IF e < MemLen THEN <<0>> ELSE << >>
    IN [s EXCEPT !.out = out_write(s.out, string_at(s.mem, i) \o more)]

trap_puts(s) ==
    [s EXCEPT !.out = out_write(s.out, string_at(s.mem, s.reg[R0]))]

trap_in(s, ch) ==
    LET prompted == [s EXCEPT !.out = out_write(s.out, TEXT_PROMPT)]
    IN IF ch = CTRL_C THEN [prompted EXCEPT !.exc = EXC_EXIT]
       ELSE [prompted EXCEPT !.out = out_write(prompted.out, <<ch>>),
                             !.reg = RegSet(s.reg, R0, ch)]

RECURSIVE packed_chars(_)
packed_chars(cs) ==
    IF Len(cs) = 0 THEN << >>
    ELSE LET c == Head(cs)
             lo == <<BitAnd(c, 255)>>
             hi == IF ShiftR(c, 8) # 0 THEN <<ShiftR(c, 8)>> ELSE << >>
         IN lo \o hi \o packed_chars(Tail(cs))

trap_putsp(s) ==
    [s EXCEPT !.stdout = @ \o packed_chars(string_at(s.mem, s.reg[R0]))]

\* trap_halt without runstate.halt()
trap_halt_running(s) == [s EXCEPT !.stdout = @ \o py_print(TEXT_HALT)]

\* trap_halt: print('-- HALT --\n'), runstate.halt()
trap_halt(s) ==
    [s EXCEPT !.stdout = @ \o py_print(TEXT_HALT), !.is_running = FALSE]

trap(instr, s, ch) ==
    LET t == BitAnd(instr, 255)
    IN IF t \notin Trap THEN [s EXCEPT !.exc = EXC_BAD_TRAP]
       ELSE IF t = Trap_GETC THEN trap_getc(s, ch)
       ELSE IF t = Trap_OUT THEN trap_out(s)
       ELSE IF t = Trap_PUTS THEN trap_puts(s)
       ELSE IF t = Trap_IN THEN trap_in(s, ch)
       ELSE IF t = Trap_PUTSP THEN trap_putsp(s)
       ELSE trap_halt(s)

\* PyVM._step without the increment of PC
PyVM_fetch_stay(rg) == rg

\* PyVM._step: self.reg[R.PC] += 1
PyVM_fetch(rg) == RegSet(rg, PC, rg[PC] + 1)

\* PyVM._step with the reserved opcode 13 executed as no operation
PyVM_step_reserved(s, ch) ==
    LET instr == MemGet(s.mem, s.reg[PC])
        rg == PyVM_fetch(s.reg)
        op == ShiftR(instr, 12)
        f == [s EXCEPT !.reg = rg]
    IN IF op = OP_ADD THEN [f EXCEPT !.reg = add(instr, rg)]
       ELSE IF op = OP_NOT THEN [f EXCEPT !.reg = not_(instr, rg)]
       ELSE IF op = OP_AND THEN [f EXCEPT !.reg = and_(instr, rg)]
       ELSE IF op = OP_BR THEN [f EXCEPT !.reg = br(instr, rg)]
       ELSE IF op = OP_JMP THEN [f EXCEPT !.reg = jmp(instr, rg)]
       ELSE IF op = OP_JSR THEN [f EXCEPT !.reg = jsr(instr, rg)]
       ELSE IF op = OP_LD THEN [f EXCEPT !.reg = ld(instr, rg, s.mem)]
       ELSE IF op = OP_LDI THEN [f EXCEPT !.reg = ldi(instr, rg, s.mem)]
       ELSE IF op = OP_LDR THEN [f EXCEPT !.reg = ldr(instr, rg, s.mem)]
       ELSE IF op = OP_LEA THEN [f EXCEPT !.reg = lea(instr, rg)]
       ELSE IF op = OP_ST THEN [f EXCEPT !.mem = st(instr, rg, s.mem)]
       ELSE IF op = OP_STI THEN [f EXCEPT !.mem = sti(instr, rg, s.mem)]
       ELSE IF op = OP_STR THEN [f EXCEPT !.mem = str_(instr, rg, s.mem)]
       ELSE IF op = OP_TRAP THEN trap(instr, f, ch)
       ELSE IF op = OP_RTI THEN [f EXCEPT !.exc = EXC_BAD_OPCODE]
       ELSE f

(***************************************************************************)
(* PyVM._step: fetch, increment PC, decode, execute.  ch is the key the    *)
(* input gives should the instruction read one.                            *)
(***************************************************************************)
PyVM_step(s, ch) ==
    LET instr == MemGet(s.mem, s.reg[PC])
        rg == PyVM_fetch(s.reg)
        op == ShiftR(instr, 12)
        f == [s EXCEPT !.reg = rg]
    IN IF op = OP_ADD THEN [f EXCEPT !.reg = add(instr, rg)]
       ELSE IF op = OP_NOT THEN [f EXCEPT !.reg = not_(instr, rg)]
       ELSE IF op = OP_AND THEN [f EXCEPT !.reg = and_(instr, rg)]
       ELSE IF op = OP_BR THEN [f EXCEPT !.reg = br(instr, rg)]
       ELSE IF op = OP_JMP THEN [f EXCEPT !.reg = jmp(instr, rg)]
       ELSE IF op = OP_JSR THEN [f EXCEPT !.reg = jsr(instr, rg)]
       ELSE IF op = OP_LD THEN [f EXCEPT !.reg = ld(instr, rg, s.mem)]
       ELSE IF op = OP_LDI THEN [f EXCEPT !.reg = ldi(instr, rg, s.mem)]
       ELSE IF op = OP_LDR THEN [f EXCEPT !.reg = ldr(instr, rg, s.mem)]
       ELSE IF op = OP_LEA THEN [f EXCEPT !.reg = lea(instr, rg)]
       ELSE IF op = OP_ST THEN [f EXCEPT !.mem = st(instr, rg, s.mem)]
       ELSE IF op = OP_STI THEN [f EXCEPT !.mem = sti(instr, rg, s.mem)]
       ELSE IF op = OP_STR THEN [f EXCEPT !.mem = str_(instr, rg, s.mem)]
       ELSE IF op = OP_TRAP THEN trap(instr, f, ch)
       ELSE [f EXCEPT !.exc = EXC_BAD_OPCODE]

(***************************************************************************)
(* asm.py: the assembler, from the tokens of every line on.  A token is a  *)
(* record [t, v]; the value of a string token is its sequence of character *)
(* codes, that of a constant an integer, any other a name.                 *)
(***************************************************************************)
REGS ==
    ("R0" :> 0) @@ ("R1" :> 1) @@ ("R2" :> 2) @@ ("R3" :> 3) @@
    ("R4" :> 4) @@ ("R5" :> 5) @@ ("R6" :> 6) @@ ("R7" :> 7)

TRAPS ==
    ("GETC" :> 32) @@ ("OUT" :> 33) @@ ("PUTS" :> 34) @@ ("IN" :> 35) @@
    ("PUTSP" :> 36) @@ ("HALT" :> 37)

OPS ==
    ("BR" :> 0) @@ ("BRn" :> 0) @@ ("BRz" :> 0) @@ ("BRp" :> 0) @@
    ("BRzp" :> 0) @@ ("BRnp" :> 0) @@ ("BRnz" :> 0) @@ ("BRnzp" :> 0) @@
    ("ADD" :> 1) @@ ("LD" :> 2) @@ ("ST" :> 3) @@ ("JSR" :> 4) @@
    ("JSRR" :> 4) @@ ("AND" :> 5) @@ ("LDR" :> 6) @@ ("STR" :> 7) @@
    ("RTI" :> 8) @@ ("NOT" :> 9) @@ ("LDI" :> 10) @@ ("STI" :> 11) @@
    ("RET" :> 12) @@ ("JMP" :> 12) @@ ("RES" :> 13) @@ ("LEA" :> 14) @@
    ("TRAP" :> 15) @@ TRAPS

DOTS == {".ORIG", ".END", ".FILL", ".BLKW", ".STRINGZ"}

Type_LABEL == "label"
Type_OP == "op"
Type_DOT == "dot"
Type_CONST == "const"
Type_REG == "reg"
Type_STR == "str"

Token(t, v) == [t |-> t, v |-> v]

\* the exceptions the two passes raise
EXC_KEY == "KeyError"
EXC_OVERFLOW == "OverflowError: unsigned short is out of range"
EXC_TYPE == "TypeError"
EXC_RAISED == "Exception"

\* symbol_table, a dict: the pairs <<label, address>> in the order the labels
\* were first bound
SymHas(sym, name) == \E i \in 1 .. Len(sym) : sym[i][1] = name

SymGet(sym, name) ==
    sym[CHOOSE i \in 1 .. Len(sym) : sym[i][1] = name][2]

\* symbol_table[name] = address
SymSet(sym, name, address) ==
    IF SymHas(sym, name)
    THEN [i \in 1 .. Len(sym) |->
            IF sym[i][1] = name THEN <<name, address>> ELSE sym[i]]
    ELSE Append(sym, <<name, address>>)

incr(lc, tokens) == lc + 1

\* CONDS of asm_pass_one with no word counted for the zero that ends a string
pass_one_CONDS_short(lc, tokens) ==
    LET key == tokens[1].v
    IN IF key = ".ORIG" THEN [lc |-> tokens[2].v, exc |-> EXC_NONE]
       ELSE IF key = ".BLKW" THEN [lc |-> lc + tokens[2].v, exc |-> EXC_NONE]
       ELSE IF key = ".FILL" THEN [lc |-> incr(lc, tokens), exc |-> EXC_NONE]
       ELSE IF key = ".STRINGZ"
       THEN [lc |-> lc + Len(tokens[2].v), exc |-> EXC_NONE]
       ELSE IF key \in DOMAIN OPS
       THEN [lc |-> incr(lc, tokens), exc |-> EXC_NONE]
       ELSE [lc |-> lc, exc |-> EXC_KEY]

\* asm_pass_one: CONDS[tokens[0].v](lc, tokens), the location counter after
\* the line
pass_one_CONDS(lc, tokens) ==
    LET key == tokens[1].v
    IN IF key = ".ORIG" THEN [lc |-> tokens[2].v, exc |-> EXC_NONE]
       ELSE IF key = ".BLKW" THEN [lc |-> lc + tokens[2].v, exc |-> EXC_NONE]
       ELSE IF key = ".FILL" THEN [lc |-> incr(lc, tokens), exc |-> EXC_NONE]
       ELSE IF key = ".STRINGZ"
       THEN [lc |-> lc + Len(tokens[2].v) + 1, exc |-> EXC_NONE]
       ELSE IF key \in DOMAIN OPS
       THEN [lc |-> incr(lc, tokens), exc |-> EXC_NONE]
       ELSE [lc |-> lc, exc |-> EXC_KEY]

\* str.encode(): UTF-8
RECURSIVE str_encode(_)
str_encode(s) ==
    IF Len(s) = 0 THEN << >>
    ELSE LET c == Head(s)
             bs == IF c < 128 THEN <<c>>
                   ELSE IF c < 2048
                   THEN <<192 + (c \div 64), 128 + (c % 64)>>
                   ELSE <<224 + (c \div 4096), 128 + ((c \div 64) % 64),
                          128 + (c % 64)>>
         IN bs \o str_encode(Tail(s))

\* the word an encoder returns, or the exception it raises
Word(w) == [w |-> w, exc |-> EXC_NONE]
Raise(e) == [w |-> 0, exc |-> e]

\* x & mask for a mask of n low bits, x of either sign
LowBits(x, n) == x % (2 ^ n)

\* REGS[tok.v]
IsReg(tok) == tok.t = Type_REG

encode_ldr_str(op, sym, lc, toks) ==
    IF ~IsReg(toks[2]) \/ ~IsReg(toks[3]) THEN Raise(EXC_KEY)
    ELSE IF toks[4].t # Type_CONST THEN Raise(EXC_TYPE)
    ELSE IF ~(toks[4].v < 2 ^ 5) THEN Raise(EXC_ASSERT)
    ELSE Word(BitOr(BitOr(BitOr(op, ShiftL(REGS[toks[2].v], 9)),
                          ShiftL(REGS[toks[3].v], 6)),
                    LowBits(UINT16_MAX + toks[4].v, 6)))

encode_add_and(op, sym, lc, toks) ==
    IF ~IsReg(toks[2]) \/ ~IsReg(toks[3]) THEN Raise(EXC_KEY)
    ELSE LET dr == ShiftL(REGS[toks[2].v], 9)
             sr1 == ShiftL(REGS[toks[3].v], 6)
         IN IF toks[4].t = Type_REG
            THEN Word(BitOr(BitOr(BitOr(op, dr), sr1), REGS[toks[4].v]))
            ELSE IF toks[4].t # Type_CONST THEN Raise(EXC_TYPE)
            ELSE IF ~(toks[4].v < 2 ^ 5) THEN Raise(EXC_ASSERT)
            ELSE Word(BitOr(BitOr(BitOr(BitOr(op, dr), sr1), ShiftL(1, 5)),
                            LowBits(UINT16_MAX + toks[4].v, 5)))

\* the mnemonics of BR that hold the letter n, z, p
BR_n == {"BRn", "BRnp", "BRnz", "BRnzp"}
BR_z == {"BRz", "BRzp", "BRnz", "BRnzp"}
BR_p == {"BRp", "BRzp", "BRnp", "BRnzp"}

\* encode_br that sets no condition bit for the bare BR
encode_br_bare(op, sym, lc, toks) ==
    LET m == toks[1].v
        op2 == IF m \in BR_n THEN BitOr(op, 2048) ELSE op
        op3 == IF m \in BR_z THEN BitOr(op2, 1024) ELSE op2
        op4 == IF m \in BR_p THEN BitOr(op3, 512) ELSE op3
    IN IF toks[2].t = Type_LABEL
       THEN IF ~SymHas(sym, toks[2].v) THEN Raise(EXC_KEY)
            ELSE Word(BitOr(op4, LowBits(SymGet(sym, toks[2].v) - lc, 9)))
       ELSE IF toks[2].t = Type_CONST
       THEN Word(BitOr(op4, LowBits(toks[2].v, 9)))
       ELSE Raise(EXC_RAISED)

encode_br(op, sym, lc, toks) ==
    LET m == toks[1].v
        op1 == IF m = "BR" THEN BitOr(op, 3584) ELSE op
        op2 == IF m \in BR_n THEN BitOr(op1, 2048) ELSE op1
        op3 == IF m \in BR_z THEN BitOr(op2, 1024) ELSE op2
        op4 == IF m \in BR_p THEN BitOr(op3, 512) ELSE op3
    IN IF toks[2].t = Type_LABEL
       THEN IF ~SymHas(sym, toks[2].v) THEN Raise(EXC_KEY)
            ELSE Word(BitOr(op4, LowBits(SymGet(sym, toks[2].v) - lc, 9)))
       ELSE IF toks[2].t = Type_CONST
       THEN Word(BitOr(op4, LowBits(toks[2].v, 9)))
       ELSE Raise(EXC_RAISED)

\* encode_ld_st with the offset measured from the instruction's own address
encode_ld_st_own(op, sym, lc, toks) ==
    IF ~IsReg(toks[2]) THEN Raise(EXC_KEY)
    ELSE IF toks[3].t # Type_LABEL \/ ~SymHas(sym, toks[3].v) THEN Raise(EXC_KEY)
    ELSE Word(BitOr(BitOr(op, ShiftL(REGS[toks[2].v], 9)),
                    LowBits(SymGet(sym, toks[3].v) - (lc - 1), 9)))

encode_ld_st(op, sym, lc, toks) ==
    IF ~IsReg(toks[2]) THEN Raise(EXC_KEY)
    ELSE IF toks[3].t # Type_LABEL \/ ~SymHas(sym, toks[3].v) THEN Raise(EXC_KEY)
    ELSE Word(BitOr(BitOr(op, ShiftL(REGS[toks[2].v], 9)),
                    LowBits(SymGet(sym, toks[3].v) - lc, 9)))

encode_traps(op, sym, lc, toks) ==
    Word(BitOr(ShiftL(OPS["TRAP"], 12), TRAPS[toks[1].v]))

\* encode[toks[0].v](op, sym, lc, toks)
encode(op, sym, lc, toks) ==
    LET m == toks[1].v
    IN IF m = "RTI" THEN Word(op)
       ELSE IF m = "TRAP"
       THEN IF toks[2].t # Type_CONST THEN Raise(EXC_TYPE)
            ELSE Word(BitOr(op, LowBits(toks[2].v, 8)))
       ELSE IF m = "RET" THEN Word(BitOr(op, ShiftL(7, 6)))
       ELSE IF m \in {"JMP", "JSRR"}
       THEN IF ~IsReg(toks[2]) THEN Raise(EXC_KEY)
            ELSE Word(BitOr(op, ShiftL(REGS[toks[2].v], 6)))
       ELSE IF m = "NOT"
       THEN IF ~IsReg(toks[2]) \/ ~IsReg(toks[3]) THEN Raise(EXC_KEY)
            ELSE Word(BitOr(BitOr(BitOr(op, ShiftL(REGS[toks[2].v], 9)),
                                  ShiftL(REGS[toks[3].v], 6)), 63))
       ELSE IF m = "JSR"
       THEN IF toks[2].t # Type_LABEL \/ ~SymHas(sym, toks[2].v)
            THEN Raise(EXC_KEY)
            ELSE Word(BitOr(BitOr(op, ShiftL(1, 11)),
                            LowBits(SymGet(sym, toks[2].v) - lc, 11)))
       ELSE IF m \in {"LDR", "STR"} THEN encode_ldr_str(op, sym, lc, toks)
       ELSE IF m \in {"AND", "ADD"} THEN encode_add_and(op, sym, lc, toks)
       ELSE IF m \in {"BR"} \cup BR_n \cup BR_z \cup BR_p
       THEN encode_br(op, sym, lc, toks)
       ELSE IF m \in {"LD", "LEA", "LDI", "ST", "STI"}
       THEN encode_ld_st(op, sym, lc, toks)
       ELSE IF m \in DOMAIN TRAPS THEN encode_traps(op, sym, lc, toks)
       ELSE Raise(EXC_KEY)

\* data.append(v) on an array of unsigned shorts, given what raised before
data_append(r) ==
    IF r.exc # EXC_NONE THEN [words |-> << >>, exc |-> r.exc]
    ELSE IF r.w \notin 0 .. 65535 THEN [words |-> << >>, exc |-> EXC_OVERFLOW]
    ELSE [words |-> <<r.w>>, exc |-> EXC_NONE]

\* CONDS of asm_pass_two with sym.get(label, 0) for the label of .FILL
pass_two_CONDS_get(tokens, sym, lc) ==
    LET key == tokens[1].v
    IN IF key = ".BLKW"
       THEN [words |-> [i \in 1 .. tokens[2].v |-> 0], exc |-> EXC_NONE]
       ELSE IF key = ".FILL"
       THEN IF tokens[2].t = Type_CONST THEN data_append(Word(tokens[2].v))
            ELSE IF tokens[2].t = Type_LABEL
            THEN IF SymHas(sym, tokens[2].v)
                 THEN data_append(Word(SymGet(sym, tokens[2].v)))
                 ELSE data_append(Word(0))
            ELSE [words |-> << >>, exc |-> EXC_NONE]
       ELSE IF key = ".STRINGZ"
       THEN [words |-> str_encode(tokens[2].v) \o <<0>>, exc |-> EXC_NONE]
       ELSE IF key \in DOMAIN OPS
       THEN data_append(encode(ShiftL(OPS[key], 12), sym, lc, tokens))
       ELSE [words |-> << >>, exc |-> EXC_KEY]

\* asm_pass_two: CONDS[tokens[0].v](tokens, data, sym, lc), the words the
\* line adds to data
pass_two_CONDS(tokens, sym, lc) ==
    LET key == tokens[1].v
    IN IF key = ".BLKW"
       THEN [words |-> [i \in 1 .. tokens[2].v |-> 0], exc |-> EXC_NONE]
       ELSE IF key = ".FILL"
       THEN IF tokens[2].t = Type_CONST THEN data_append(Word(tokens[2].v))
            ELSE IF tokens[2].t = Type_LABEL
            THEN IF SymHas(sym, tokens[2].v)
                 THEN data_append(Word(SymGet(sym, tokens[2].v)))
                 ELSE data_append(Raise(EXC_KEY))
            ELSE [words |-> << >>, exc |-> EXC_NONE]
       ELSE IF key = ".STRINGZ"
       THEN [words |-> str_encode(tokens[2].v) \o <<0>>, exc |-> EXC_NONE]
       ELSE IF key \in DOMAIN OPS
       THEN data_append(encode(ShiftL(OPS[key], 12), sym, lc, tokens))
       ELSE [words |-> << >>, exc |-> EXC_KEY]

\* the body of the loop of asm_pass_two for one entry of lines
pass_two_line(tokens, sym, lc) ==
    IF tokens[1].t # Type_LABEL THEN pass_two_CONDS(tokens, sym, lc)
    ELSE IF Len(tokens) # 1 THEN pass_two_CONDS(Tail(tokens), sym, lc)
    ELSE [words |-> << >>, exc |-> EXC_NONE]

\* the loop of asm_pass_two over lines[k:], data being what was emitted
RECURSIVE pass_two_loop(_, _, _, _)
pass_two_loop(symbol_table_, lines_, k, data) ==
    IF k > Len(lines_) THEN [data |-> data, exc |-> EXC_NONE]
    ELSE IF lines_[k].tokens[1].v = ".END" THEN [data |-> data, exc |-> EXC_NONE]
    ELSE LET r == pass_two_line(lines_[k].tokens, symbol_table_, lines_[k].lc)
         IN IF r.exc # EXC_NONE THEN [data |-> data, exc |-> r.exc]
            ELSE pass_two_loop(symbol_table_, lines_, k + 1, data \o r.words)

\* array.tobytes() on a little-endian host
tobytes(words) ==
    AsTuple([i \in 1 .. (2 * Len(words)) |->
                IF i % 2 = 1 THEN words[(i + 1) \div 2] % 256
                ELSE words[i \div 2] \div 256])

\* asm_pass_two without data.byteswap()
asm_pass_two_noswap(symbol_table_, lines_) ==
    LET first == data_append(Word(lines_[1].tokens[2].v))
        r == IF first.exc # EXC_NONE THEN [data |-> << >>, exc |-> first.exc]
             ELSE pass_two_loop(symbol_table_, lines_, 2, first.words)
    IN [emitted |-> r.data, data |-> r.data, exc |-> r.exc]

\* asm_pass_two: the words emitted, as they are before data.byteswap(), and
\* the array returned
asm_pass_two(symbol_table_, lines_) ==
    LET first == data_append(Word(lines_[1].tokens[2].v))
        r == IF first.exc # EXC_NONE THEN [data |-> << >>, exc |-> first.exc]
             ELSE pass_two_loop(symbol_table_, lines_, 2, first.words)
    IN [emitted |-> r.data, data |-> byteswap(r.data), exc |-> r.exc]

(***************************************************************************)
(* Inputs of the model                                                     *)
(***************************************************************************)
\* the number of calls a caller makes on one VM
MaxCalls == 4

\* the number of instructions one continue_ is followed for
MaxIters == 24

\* vm_test.py: NOP = '16BF' (ADD R3, R2, #-1) and HLT = 'F025'
NOP == 5823
HLT == 61477

\* the length of the NOP sled that ends in a HALT (vm_test.py: NOP * 10)
SledLen == 10

\* where in the sled the caller writes a HALT (tests/test_vm.py writes it at
\* PC_START + 0x200 of a sled that fills memory)
HaltAt == 5

\* n words
Words(n, w) == AsTuple([i \in 1 .. n |-> w])

Sled(n) == Words(n, NOP) \o <<HLT>>

\* bytes.fromhex of an origin and the words after it
WordBytes(ws) ==
    AsTuple([i \in 1 .. (2 * Len(ws)) |->
                IF i % 2 = 1 THEN ws[(i + 1) \div 2] \div 256
                ELSE ws[i \div 2] % 256])

Image(origin, ws) == WordBytes(<<origin>>) \o WordBytes(ws)

\* The looping program of the tracing tests (obj/asm/hello2.obj):
\*   x3000 LEA R0, MSG    x3001 LD R1, COUNT   x3002 PUTS
\*   x3003 ADD R1, R1, #-1   x3004 BRp x3002   x3005 HALT
\*   x3006 MSG .STRINGZ "Hello, World!\n"      x3015 COUNT .FILL 5
hello2 ==
    <<57349, 8723, 61474, 4735, 1021, 61477,
      72, 101, 108, 108, 111, 44, 32, 87, 111, 114, 108, 100, 33, 10, 0, 5>>

\* vm_test.py: 'DEAD'
DEAD == 57005

\* the payloads loaded at the last addresses are 0 .. MaxPayload bytes long
MaxPayload == 4

\* the number of images loaded one after the other when load_binary alone is
\* followed
MaxLoads == 2

\* the bytes 0xA1, 0xA2, ... of a payload of n bytes
Payload(n) == AsTuple([i \in 1 .. n |-> 160 + i])

\* a program that leaves PC at the last address: NOT R0, R0 ; JMP R0
wrap == <<36927, 49152>>

\* an image of n words for origin 0: the first word and the last ones are
\* DEAD as in vm_test.py, the words between are 0 so that the memory the
\* model keeps stays small
Fill(n) ==
    AsTuple([i \in 1 .. n |-> IF i = 1 \/ i >= UINT16_MAX THEN DEAD ELSE 0])

\* the programs a caller loads and runs
ProgramImages ==
    << Image(PC_START, Sled(SledLen)),
       Image(PC_START, hello2),
       Image(PC_START, wrap) >>

\* the images of the tests of load_binary: '3000 E005 2213', '0000 DEAD EE',
\* an image that fills memory and one a word longer ('0000' + 'DEAD' *
\* UINT16_MAX and * (UINT16_MAX + 1) there); and the images too short to hold
\* an origin
TestImages ==
    << Image(PC_START, <<57349, 8723>>),
       Image(0, <<DEAD>>) \o <<238>>,
       Image(0, Fill(UINT16_MAX)),
       Image(0, Fill(UINT16_MAX + 1)),
       << >>,
       <<48>> >>

\* payloads of every length up to MaxPayload at the last two addresses
EdgeImages ==
    [k \in 1 .. (2 * (MaxPayload + 1)) |->
        IF k <= MaxPayload + 1
        THEN WordBytes(<<UINT16_MAX - 1>>) \o Payload(k - 1)
        ELSE WordBytes(<<UINT16_MAX - 2>>) \o Payload(k - MaxPayload - 2)]

image_table == ProgramImages \o TestImages \o EdgeImages

ProgramIds == 1 .. Len(ProgramImages)

LoadIds == 1 .. Len(image_table)

\* one word of every opcode and trap, written at PC_START by the caller:
\* BR (never, taken), ADD, LD, ST, JSR, JSRR, AND, LDR, STR, RTI, NOT, LDI,
\* STI, JMP, RES, LEA, TRAP x20..x26
PokeWords ==
    { 0, 3585, 5823, 8193, 12289, 18433, 16512, 21087, 24577, 28673, 32768,
      37503, 40961, 45057, 49600, 53248, 57345,
      61472, 61473, 61474, 61475, 61476, 61477, 61478 }

\* vm_test.py: vm.mem[0x3000] = 0xBABE
BABE == 47806

\* the keys the input gives
Keys == {65, CTRL_C}

\* the number of lines a source holds after its .ORIG line
MaxLines == 3

\* the instructions that take a label: one source uses one of them
RefOps == {"BRnzp", "BRz", "LD", "LDI", "LEA", "ST", "STI", "JSR"}

\* tok('op R1, label'), or tok('op label') for the branches and JSR
RefLine(op, label) ==
    IF op \in {"LD", "LDI", "LEA", "ST", "STI"}
    THEN <<Token(Type_OP, op), Token(Type_REG, "R1"), Token(Type_LABEL, label)>>
    ELSE <<Token(Type_OP, op), Token(Type_LABEL, label)>>

\* tok('.ORIG x3000')
OrigLine == <<Token(Type_DOT, ".ORIG"), Token(Type_CONST, PC_START)>>

\* the tokens of the lines a source is made of:
\*   op [R1,] A          op [R1,] B          A ADD R1, R1, #-1
\*   B .FILL x5          .BLKW 255           A
\*   B .STRINGZ "Hi"     HALT                .END
\*   .FILL A
SourceLines(op) ==
    << RefLine(op, "A"),
       RefLine(op, "B"),
       <<Token(Type_LABEL, "A"), Token(Type_OP, "ADD"), Token(Type_REG, "R1"),
         Token(Type_REG, "R1"), Token(Type_CONST, -1)>>,
       <<Token(Type_LABEL, "B"), Token(Type_DOT, ".FILL"), Token(Type_CONST, 5)>>,
       <<Token(Type_DOT, ".BLKW"), Token(Type_CONST, 255)>>,
       <<Token(Type_LABEL, "A")>>,
       <<Token(Type_LABEL, "B"), Token(Type_DOT, ".STRINGZ"),
         Token(Type_STR, <<72, 105>>)>>,
       <<Token(Type_OP, "HALT")>>,
       <<Token(Type_DOT, ".END")>>,
       <<Token(Type_DOT, ".FILL"), Token(Type_LABEL, "A")>> >>

\* the source whose lines after .ORIG are the lines f names
Source(op, f) ==
    <<OrigLine>> \o AsTuple([i \in 1 .. Len(f) |-> SourceLines(op)[f[i]]])

(***************************************************************************)
(* The state of one PyVM and of its caller                                 *)
(***************************************************************************)
VARIABLES
    reg,            \* PyRegisters._registers
    mem,            \* PyMemory._memory
    is_running,     \* PyRunningState._is_running
    out,            \* PyOutput._out: the channels 'output' and 'error'
    stdout,         \* sys.stdout
    trace_enabled,  \* Registers.trace_enabled
    traces,         \* Registers.traces
    pos,            \* where the caller is: "idle", or "continue" in the loop
    exc,            \* the exception the last call raised, or EXC_NONE
    last,           \* the last call made
    arg,            \* the image the last load_binary was given (its place
                    \* in image_table) or the address and the value of the
                    \* last memory write; 0 before any
    calls,          \* the number of calls made
    iters           \* the instructions the running continue_ has executed

\* the state of one call of assemble
VARIABLES
    code,           \* the tokens of the lines of the source
    line_number,    \* the line asm_pass_one is at
    lc,             \* the location counter
    symbol_table,   \* the symbol table
    lines,          \* the lines asm_pass_one keeps, each with the lc after it
    data,           \* the words asm_pass_two emitted, before data.byteswap()
    bin_data,       \* the object bytes assemble returns
    asm_pos,        \* "idle", "pass_one", "pass_two", "assembled", "loaded",
                    \* "failed"
    asm_exc         \* the exception assemble raised, or EXC_NONE

\* the VM of vm.py
VARIABLES
    memory          \* Memory._memory

asm_vars == <<code, line_number, lc, symbol_table, lines, data, bin_data,
              asm_pos, asm_exc>>

vars == <<reg, mem, is_running, out, stdout, trace_enabled, traces, pos, exc,
          last, arg, calls, iters, asm_vars, memory>>

\* no source is being assembled
AsmIdle ==
    /\ code = << >>
    /\ line_number = 1
    /\ lc = 0
    /\ symbol_table = << >>
    /\ lines = << >>
    /\ data = << >>
    /\ bin_data = << >>
    /\ asm_pos = "idle"
    /\ asm_exc = EXC_NONE
    /\ memory = vm_Memory_init

\* PyVM.__init__
Init ==
    /\ mem = PyMemory_init
    /\ is_running = FALSE
    /\ reg = Registers_reset([r \in R |-> 0])
    /\ trace_enabled = FALSE
    /\ traces = << >>
    /\ out = PyOutput_init
    /\ stdout = << >>
    /\ pos = "idle"
    /\ exc = EXC_NONE
    /\ last = "init"
    /\ arg = 0
    /\ calls = 0
    /\ iters = 0
    /\ AsmIdle

Machine ==
    [reg |-> reg, mem |-> mem, is_running |-> is_running, out |-> out,
     stdout |-> stdout, traces |-> traces, exc |-> EXC_NONE]

Install(s) ==
    /\ reg' = s.reg
    /\ mem' = s.mem
    /\ is_running' = s.is_running
    /\ out' = s.out
    /\ stdout' = s.stdout
    /\ traces' = s.traces
    /\ exc' = s.exc

\* VM.step without the return that follows the write of '-- HALTED --'
VM_step_through(s, te, ch) ==
    LET w == IF ~s.is_running
             THEN [s EXCEPT !.out = out_write_err(s.out, TEXT_HALTED)]
             ELSE s
        t == IF te THEN [w EXCEPT !.traces = save_trace(w.traces, w.reg)]
             ELSE w
    IN PyVM_step(t, ch)

\* VM.step with save_trace after _step instead of before it
VM_step_trace_after(s, te, ch) ==
    IF ~s.is_running
    THEN [s EXCEPT !.out = out_write_err(s.out, TEXT_HALTED)]
    ELSE LET t == PyVM_step(s, ch)
         IN IF te THEN [t EXCEPT !.traces = save_trace(t.traces, t.reg)]
            ELSE t

\* VM.step that undoes a _step that raises
VM_step_rollback(s, te, ch) ==
    IF ~s.is_running
    THEN [s EXCEPT !.out = out_write_err(s.out, TEXT_HALTED)]
    ELSE LET t == IF te THEN [s EXCEPT !.traces = save_trace(s.traces, s.reg)]
                  ELSE s
             r == PyVM_step(t, ch)
         IN IF r.exc # EXC_NONE THEN [s EXCEPT !.exc = r.exc] ELSE r

\* VM.step
VM_step(s, te, ch) ==
    IF ~s.is_running
    THEN [s EXCEPT !.out = out_write_err(s.out, TEXT_HALTED)]
    ELSE LET t == IF te THEN [s EXCEPT !.traces = save_trace(s.traces, s.reg)]
                  ELSE s
         IN PyVM_step(t, ch)

\* VM.reset on a VM whose output sink is made anew
VM_reset_fresh(s) ==
    [s EXCEPT !.out = out_write_err(PyOutput_init, TEXT_RESET),
              !.reg = Registers_reset(s.reg),
              !.is_running = TRUE]

\* VM.reset
VM_reset(s) ==
    [s EXCEPT !.out = out_write_err(s.out, TEXT_RESET),
              !.reg = Registers_reset(s.reg),
              !.is_running = TRUE]

Called(name) ==
    /\ pos = "idle"
    /\ calls < MaxCalls
    /\ calls' = calls + 1
    /\ last' = name
    /\ UNCHANGED <<asm_vars, memory>>

reset ==
    /\ Called("reset")
    /\ Install(VM_reset(Machine))
    /\ UNCHANGED <<trace_enabled, pos, iters, arg>>

step ==
    /\ Called("step")
    /\ \E ch \in Keys : Install(VM_step(Machine, trace_enabled, ch))
    /\ UNCHANGED <<trace_enabled, pos, iters, arg>>

\* VM.continue_ up to its loop
continue_ ==
    /\ Called("continue_")
    /\ IF ~is_running
       THEN /\ Install([Machine EXCEPT !.out = out_write_err(out, TEXT_HALTED)])
            /\ UNCHANGED <<pos, iters>>
       ELSE /\ Install(Machine)
            /\ pos' = "continue"
            /\ iters' = 0
    /\ UNCHANGED <<trace_enabled, arg>>

\* the loop of VM.continue_ as `while True`: the running flag is not tested
\* after a step
continue_loop_untested ==
    /\ pos = "continue"
    /\ iters < MaxIters
    /\ \E ch \in Keys :
          LET s == VM_step(Machine, trace_enabled, ch)
          IN /\ Install(s)
             /\ pos' = IF s.exc # EXC_NONE THEN "idle" ELSE "continue"
    /\ iters' = iters + 1
    /\ UNCHANGED <<trace_enabled, last, arg, calls>>
    /\ UNCHANGED <<asm_vars, memory>>

\* one turn of the loop of VM.continue_, and the test that follows it
continue_loop ==
    /\ pos = "continue"
    /\ iters < MaxIters
    /\ \E ch \in Keys :
          LET s == VM_step(Machine, trace_enabled, ch)
          IN /\ Install(s)
             /\ pos' = IF s.exc # EXC_NONE \/ ~s.is_running
                       THEN "idle" ELSE "continue"
    /\ iters' = iters + 1
    /\ UNCHANGED <<trace_enabled, last, arg, calls>>
    /\ UNCHANGED <<asm_vars, memory>>

\* vm.mem.load_binary(image_table[id])
load(id) ==
    /\ Called("load_binary")
    /\ LET r == load_binary(mem, image_table[id])
       IN Install([Machine EXCEPT !.mem = r.mem, !.exc = r.exc])
    /\ arg' = id
    /\ UNCHANGED <<trace_enabled, pos, iters>>

\* vm.mem[address] = val: the array of unsigned shorts refuses a value it
\* cannot hold
poke(address, val) ==
    /\ Called("poke")
    /\ IF val \in 0 .. (UINT16_MAX - 1)
       THEN Install([Machine EXCEPT !.mem = MemSet(mem, address, val)])
       ELSE Install([Machine EXCEPT !.exc = EXC_OVERFLOW])
    /\ arg' = <<address, val>>
    /\ UNCHANGED <<trace_enabled, pos, iters>>

\* vm.reg.trace_enabled = b
set_trace_enabled(b) ==
    /\ Called("trace_enabled")
    /\ trace_enabled' = b
    /\ Install(Machine)
    /\ UNCHANGED <<pos, iters, arg>>

\* PyOutput._read: vm.out.read() and vm.out.read_err()
read(channel) ==
    /\ Called("read")
    /\ Install([Machine EXCEPT !.out = [out EXCEPT ![channel] = << >>]])
    /\ UNCHANGED <<trace_enabled, pos, iters, arg>>

Next ==
    \/ reset
    \/ step
    \/ continue_
    \/ continue_loop
    \/ \E id \in ProgramIds : load(id)
    \/ \E w \in PokeWords : poke(PC_START, w)
    \/ poke(PC_START + HaltAt, HLT)
    \/ poke(PC_START + UINT16_MAX, BABE)
    \/ poke(PC_START, UINT16_MAX + BABE)
    \/ \E b \in BOOLEAN : set_trace_enabled(b)
    \/ \E channel \in {"output", "error"} : read(channel)

Spec == Init /\ [][Next]_vars

\* a turn of the loop of continue_ seen from outside: the step that counts one
\* more instruction.  Of the steps of Next these are the steps of
\* continue_loop, and one is possible exactly when continue_loop is.
LoopTurn == pos = "continue" /\ iters < MaxIters /\ iters' = iters + 1

\* the loop of continue_ goes on while the VM runs
LiveSpec == Spec /\ WF_iters(LoopTurn)

(***************************************************************************)
(* load_binary alone, over the images of image_table                       *)
(***************************************************************************)
LoadInit ==
    /\ mem = PyMemory_init
    /\ is_running = FALSE
    /\ reg = Registers_reset([r \in R |-> 0])
    /\ trace_enabled = FALSE
    /\ traces = << >>
    /\ out = PyOutput_init
    /\ stdout = << >>
    /\ pos = "idle"
    /\ exc = EXC_NONE
    /\ last = "init"
    /\ arg = 0
    /\ calls = MaxCalls - MaxLoads
    /\ iters = 0
    /\ AsmIdle

LoadNext == \E id \in LoadIds : load(id)

LoadSpec == LoadInit /\ [][LoadNext]_vars

(***************************************************************************)
(* load_binary of vm.py alone, over the images of image_table              *)
(***************************************************************************)
\* vm.memory.load_binary(image_table[id]) on the VM of vm.py
vm_load(id) ==
    /\ calls < MaxCalls
    /\ calls' = calls + 1
    /\ last' = "load_binary"
    /\ arg' = id
    /\ LET r == vm_Memory_load_binary(image_table[id])
       IN memory' = r.memory /\ exc' = r.exc
    /\ UNCHANGED <<reg, mem, is_running, out, stdout, trace_enabled, traces,
                   pos, iters, asm_vars>>

\* vm.memory[address] = val on the VM of vm.py
vm_poke(address, val) ==
    /\ calls < MaxCalls
    /\ calls' = calls + 1
    /\ last' = "poke"
    /\ arg' = <<address, val>>
    /\ LET r == vm_Memory_setitem(memory, address, val)
       IN memory' = r.memory /\ exc' = r.exc
    /\ UNCHANGED <<reg, mem, is_running, out, stdout, trace_enabled, traces,
                   pos, iters, asm_vars>>

vm_LoadNext ==
    \/ \E id \in LoadIds : vm_load(id)
    \/ \E address \in {0, PC_START, UINT16_MAX - 1, PC_START + UINT16_MAX} :
          \E val \in {DEAD, BABE} : vm_poke(address, val)

vm_LoadSpec == LoadInit /\ [][vm_LoadNext]_vars

(***************************************************************************)
(* assemble, and the load of the object into a VM                          *)
(***************************************************************************)
\* a VM is constructed and assemble(code) starts on a source
AsmInit ==
    /\ mem = PyMemory_init
    /\ is_running = FALSE
    /\ reg = Registers_reset([r \in R |-> 0])
    /\ trace_enabled = FALSE
    /\ traces = << >>
    /\ out = PyOutput_init
    /\ stdout = << >>
    /\ pos = "idle"
    /\ exc = EXC_NONE
    /\ last = "init"
    /\ arg = 0
    /\ calls = 0
    /\ iters = 0
    /\ \E op \in RefOps : \E n \in 0 .. MaxLines :
          \E f \in [1 .. n -> 1 .. Len(SourceLines(op))] :
             code = Source(op, f)
    /\ line_number = 1
    /\ lc = 0
    /\ symbol_table = << >>
    /\ lines = << >>
    /\ data = << >>
    /\ bin_data = << >>
    /\ asm_pos = "pass_one"
    /\ asm_exc = EXC_NONE
    /\ memory = vm_Memory_init

UnchangedVM ==
    UNCHANGED <<reg, mem, is_running, out, stdout, trace_enabled, traces, pos,
                exc, last, arg, calls, iters, memory>>

\* asm_pass_one that passes over .END as over an empty line
pass_one_past_end ==
    /\ asm_pos = "pass_one"
    /\ line_number <= Len(code)
    /\ LET tokens == code[line_number]
           more == IF line_number < Len(code) THEN "pass_one" ELSE "pass_two"
       IN IF Len(tokens) = 0 \/ tokens[1].v = ".END"
          THEN /\ asm_pos' = more
               /\ UNCHANGED <<lc, symbol_table, lines, asm_exc>>
          ELSE LET r == IF tokens[1].t # Type_LABEL
                        THEN pass_one_CONDS(lc, tokens)
                        ELSE IF Len(tokens) # 1
                        THEN pass_one_CONDS(lc, Tail(tokens))
                        ELSE [lc |-> lc, exc |-> EXC_NONE]
               IN /\ symbol_table' =
                        IF tokens[1].t = Type_LABEL
                        THEN SymSet(symbol_table, tokens[1].v, lc)
                        ELSE symbol_table
                  /\ lc' = r.lc
                  /\ asm_exc' = r.exc
                  /\ IF r.exc # EXC_NONE
                     THEN asm_pos' = "failed" /\ UNCHANGED lines
                     ELSE /\ asm_pos' = more
                          /\ lines' = Append(lines, [tokens |-> tokens, lc |-> r.lc])
    /\ line_number' = line_number + 1
    /\ UNCHANGED <<code, data, bin_data>>
    /\ UnchangedVM

\* asm_pass_one: one turn of its loop over the lines, and its return after
\* the last line or at .END
pass_one ==
    /\ asm_pos = "pass_one"
    /\ line_number <= Len(code)
    /\ LET tokens == code[line_number]
           more == IF line_number < Len(code) THEN "pass_one" ELSE "pass_two"
       IN IF Len(tokens) = 0
          THEN /\ asm_pos' = more
               /\ UNCHANGED <<lc, symbol_table, lines, asm_exc>>
          ELSE IF tokens[1].v = ".END"
          THEN /\ asm_pos' = "pass_two"
               /\ UNCHANGED <<lc, symbol_table, lines, asm_exc>>
          ELSE LET r == IF tokens[1].t # Type_LABEL
                        THEN pass_one_CONDS(lc, tokens)
                        ELSE IF Len(tokens) # 1
                        THEN pass_one_CONDS(lc, Tail(tokens))
                        ELSE [lc |-> lc, exc |-> EXC_NONE]
               IN /\ symbol_table' =
                        IF tokens[1].t = Type_LABEL
                        THEN SymSet(symbol_table, tokens[1].v, lc)
                        ELSE symbol_table
                  /\ lc' = r.lc
                  /\ asm_exc' = r.exc
                  /\ IF r.exc # EXC_NONE
                     THEN asm_pos' = "failed" /\ UNCHANGED lines
                     ELSE /\ asm_pos' = more
                          /\ lines' = Append(lines, [tokens |-> tokens, lc |-> r.lc])
    /\ line_number' = line_number + 1
    /\ UNCHANGED <<code, data, bin_data>>
    /\ UnchangedVM

\* assemble: asm_pass_two(symbol_table, lines) and bin_data.tobytes()
pass_two ==
    /\ asm_pos = "pass_two"
    /\ LET r == asm_pass_two(symbol_table, lines)
       IN /\ asm_exc' = r.exc
          /\ IF r.exc # EXC_NONE
             THEN asm_pos' = "failed" /\ UNCHANGED <<data, bin_data>>
             ELSE /\ asm_pos' = "assembled"
                  /\ data' = r.emitted
                  /\ bin_data' = tobytes(r.data)
    /\ UNCHANGED <<code, line_number, lc, symbol_table, lines>>
    /\ UnchangedVM

\* vm.mem.load_binary(bin_data)
load_object ==
    /\ asm_pos = "assembled"
    /\ pos = "idle"
    /\ calls < MaxCalls
    /\ calls' = calls + 1
    /\ last' = "load_binary"
    /\ LET r == load_binary(mem, bin_data)
       IN Install([Machine EXCEPT !.mem = r.mem, !.exc = r.exc])
    /\ asm_pos' = "loaded"
    /\ UNCHANGED <<trace_enabled, pos, iters, arg>>
    /\ UNCHANGED <<code, line_number, lc, symbol_table, lines, data, bin_data,
                   asm_exc, memory>>

AsmNext == pass_one \/ pass_two \/ load_object

AsmSpec == AsmInit /\ [][AsmNext]_vars

(***************************************************************************)
(* assemble on sources of instructions that hold an immediate              *)
(***************************************************************************)
\* tok('op R1, R2, #v')
ImmLine(op, v) ==
    <<Token(Type_OP, op), Token(Type_REG, "R1"), Token(Type_REG, "R2"),
      Token(Type_CONST, v)>>

\* the lines of these sources: ADD and AND with the immediates at and
\* beyond the ends of the 5-bit range, LDR and STR with the offsets at and
\* beyond the ends of the 6-bit range
ImmLines ==
    << ImmLine("ADD", 15), ImmLine("ADD", 16), ImmLine("AND", -16),
       ImmLine("AND", -17), ImmLine("LDR", 31), ImmLine("LDR", 32),
       ImmLine("STR", -32), ImmLine("STR", -33) >>

\* a VM is constructed and assemble(code) starts on .ORIG x3000 followed by
\* up to MaxLines of these lines
AsmImmInit ==
    /\ mem = PyMemory_init
    /\ is_running = FALSE
    /\ reg = Registers_reset([r \in R |-> 0])
    /\ trace_enabled = FALSE
    /\ traces = << >>
    /\ out = PyOutput_init
    /\ stdout = << >>
    /\ pos = "idle"
    /\ exc = EXC_NONE
    /\ last = "init"
    /\ arg = 0
    /\ calls = 0
    /\ iters = 0
    /\ \E n \in 0 .. MaxLines : \E f \in [1 .. n -> 1 .. Len(ImmLines)] :
          code = <<OrigLine>> \o AsTuple([i \in 1 .. n |-> ImmLines[f[i]]])
    /\ line_number = 1
    /\ lc = 0
    /\ symbol_table = << >>
    /\ lines = << >>
    /\ data = << >>
    /\ bin_data = << >>
    /\ asm_pos = "pass_one"
    /\ asm_exc = EXC_NONE
    /\ memory = vm_Memory_init

AsmImmSpec == AsmImmInit /\ [][AsmNext]_vars

(***************************************************************************)
(* assemble on sources of directives and labels                            *)
(***************************************************************************)
\* a VM is constructed and assemble(code) starts on the source c
AsmStartsOn(c) ==
    /\ mem = PyMemory_init
    /\ is_running = FALSE
    /\ reg = Registers_reset([r \in R |-> 0])
    /\ trace_enabled = FALSE
    /\ traces = << >>
    /\ out = PyOutput_init
    /\ stdout = << >>
    /\ pos = "idle"
    /\ exc = EXC_NONE
    /\ last = "init"
    /\ arg = 0
    /\ calls = 0
    /\ iters = 0
    /\ code = c
    /\ line_number = 1
    /\ lc = 0
    /\ symbol_table = << >>
    /\ lines = << >>
    /\ data = << >>
    /\ bin_data = << >>
    /\ asm_pos = "pass_one"
    /\ asm_exc = EXC_NONE
    /\ memory = vm_Memory_init

\* the tokens of the lines of these sources:
\*   .STRINGZ "é"        A .STRINGZ "Hi"     .STRINGZ ""
\*   .BLKW 2             A HALT              B .FILL x5
\*   B                   .FILL B
DirLines ==
    << <<Token(Type_DOT, ".STRINGZ"), Token(Type_STR, <<233>>)>>,
       <<Token(Type_LABEL, "A"), Token(Type_DOT, ".STRINGZ"),
         Token(Type_STR, <<72, 105>>)>>,
       <<Token(Type_DOT, ".STRINGZ"), Token(Type_STR, << >>)>>,
       <<Token(Type_DOT, ".BLKW"), Token(Type_CONST, 2)>>,
       <<Token(Type_LABEL, "A"), Token(Type_OP, "HALT")>>,
       <<Token(Type_LABEL, "B"), Token(Type_DOT, ".FILL"), Token(Type_CONST, 5)>>,
       <<Token(Type_LABEL, "B")>>,
       <<Token(Type_DOT, ".FILL"), Token(Type_LABEL, "B")>> >>

\* assemble(code) starts on .ORIG x3000 followed by up to MaxLines of these
\* lines
AsmDirInit ==
    \E n \in 0 .. MaxLines : \E f \in [1 .. n -> 1 .. Len(DirLines)] :
       AsmStartsOn(<<OrigLine>> \o AsTuple([i \in 1 .. n |-> DirLines[f[i]]]))

AsmDirSpec == AsmDirInit /\ [][AsmNext]_vars

(***************************************************************************)
(* assemble on sources that branch, and the run of the object              *)
(***************************************************************************)
\* the mnemonics of encode_br
BrOps == {"BR", "BRn", "BRz", "BRp", "BRzp", "BRnp", "BRnz", "BRnzp"}

\* tok('AND R1, R1, #0'), tok('ADD R1, R1, #-1') and tok('ADD R1, R1, #1'),
\* which leave COND at ZRO, at NEG and at POS
FlagLines ==
    << <<Token(Type_OP, "AND"), Token(Type_REG, "R1"), Token(Type_REG, "R1"),
         Token(Type_CONST, 0)>>,
       <<Token(Type_OP, "ADD"), Token(Type_REG, "R1"), Token(Type_REG, "R1"),
         Token(Type_CONST, -1)>>,
       <<Token(Type_OP, "ADD"), Token(Type_REG, "R1"), Token(Type_REG, "R1"),
         Token(Type_CONST, 1)>> >>

\* assemble(code) starts on the source
\*   .ORIG x3000 / one of FlagLines / op A / HALT / A HALT
AsmBrInit ==
    \E op \in BrOps : \E i \in 1 .. Len(FlagLines) :
       AsmStartsOn(<< OrigLine,
                      FlagLines[i],
                      <<Token(Type_OP, op), Token(Type_LABEL, "A")>>,
                      <<Token(Type_OP, "HALT")>>,
                      <<Token(Type_LABEL, "A"), Token(Type_OP, "HALT")>> >>)

\* the source is assembled and loaded, and the caller resets and steps
AsmBrNext == AsmNext \/ reset \/ step

AsmBrSpec == AsmBrInit /\ [][AsmBrNext]_vars

(***************************************************************************)
(* sign_extend alone, on every value of the fields the handlers extend     *)
(***************************************************************************)
\* the widths of imm5, offset6, PCoffset9 and PCoffset11
Widths == {5, 6, 9, 11}

\* a caller is about to call sign_extend(x, bit_count): arg holds the two
SignInit ==
    /\ mem = PyMemory_init
    /\ is_running = FALSE
    /\ reg = Registers_reset([r \in R |-> 0])
    /\ trace_enabled = FALSE
    /\ traces = << >>
    /\ out = PyOutput_init
    /\ stdout = << >>
    /\ pos = "idle"
    /\ exc = EXC_NONE
    /\ last = "init"
    /\ \E bit_count \in Widths : \E x \in 0 .. (2 ^ bit_count - 1) :
          arg = <<x, bit_count>>
    /\ calls = 0
    /\ iters = 0
    /\ AsmIdle

\* sign_extend(x, bit_count): arg holds the arguments and then the result
sign_extend_call ==
    /\ last = "init"
    /\ last' = "sign_extend"
    /\ calls' = calls + 1
    /\ arg' = <<arg[1], arg[2], sign_extend(arg[1], arg[2])>>
    /\ UNCHANGED <<reg, mem, is_running, out, stdout, trace_enabled, traces,
                   pos, exc, iters, asm_vars, memory>>

SignSpec == SignInit /\ [][sign_extend_call]_vars

(***************************************************************************)
(* One instruction executed from any registers                             *)
(***************************************************************************)
\* the values R1 and R2 hold: zero, one, the largest positive, the smallest
\* negative, and all ones
RegValues == {0, 1, 32767, 32768, 65535}

\* the values of the cell that LD, LDI, ST and STI with offset 1 address
\* (for LDI and STI it is the pointer): zero, the cells that hold all ones
\* and the largest positive, and the keyboard status register 0xFE00
DataValues == {0, 32768, 65535, 65024}

\* the words executed, with R3 or R1 as destination and R1, R2 as sources:
\*   ADD R3,R1,R2  ADD R1,R1,#1  ADD R1,R1,#-1  AND R3,R1,R2  AND R1,R1,#0
\*   AND R3,R1,#-1  NOT R3,R1  NOT R1,R1  LD R3,#1  LDI R3,#1  LDR R3,R1,#1
\*   LDR R3,R1,#-1  LDR R1,R1,#1  LEA R3,#-1  LEA R3,#1  ST R1,#1  STI R1,#1
\*   STR R2,R1,#1  STR R2,R1,#-1
\*   BR (never)  BRnzp #1  BRz #-2  BRn #1  BRp #1  JMP R1  RET  JSR #1
\*   JSR #-1  JSRR R1  JSRR R7  RTI and RES (low bits clear, low bits set)
\*   TRAP x20 .. x26
ExecWords ==
    { 5698, 4705, 4735, 5186, 4674, 22082, 21088, 22143, 21570, 38527, 37503, 9729, 42497,
      26177, 26239, 25153, 59391, 58881, 12801, 45569, 29761, 29823,
      0, 3585, 1534, 2049, 513, 49216, 49600, 18433, 20479, 16448, 16832,
      32768, 36863, 53248, 57343,
      61472, 61473, 61474, 61475, 61476, 61477, 61478 }

\* the memory around the instruction w at pc: the cell two further holds d,
\* the cells 0x8000 and 0xFFFF hold all ones and the largest positive, the
\* caller has written 0xBABE to 0xFE00, and the words 'Hi', '!' packed two
\* characters to a word stand at 0x3010
ExecMemory(pc, w, d) ==
    LET strings == MemSet(MemSet(PyMemory_init, PC_START + 16, 26952),
                          PC_START + 17, 33)
        cells == MemSet(MemSet(MemSet(strings, 32768, 65535), 65535, 32767),
                        65024, BABE)
    IN MemSet(MemSet(cells, pc + 2, d), pc, w)

\* a VM after reset() whose caller has set PC, COND, R0 (to the string or to
\* the last address), R1, R2 and R7 and written the memory
ExecInit ==
    /\ \E pc \in {PC_START, UINT16_MAX - 1} : \E cond \in {FL_POS, FL_ZRO, FL_NEG} :
       \E a \in RegValues : \E b \in RegValues :
       \E w \in ExecWords : \E d \in DataValues :
       \E s \in {PC_START + 16, UINT16_MAX - 1} :
          /\ reg = [r \in R |->
                      RegSet(Registers_reset([x \in R |-> 0]), r,
                             CASE r = PC -> pc
                               [] r = COND -> cond
                               [] r = R0 -> s
                               [] r = R1 -> a
                               [] r = R2 -> b
                               [] r = R7 -> PC_START + 5
                               [] OTHER -> 0)[r]]
          /\ mem = ExecMemory(pc, w, d)
    /\ is_running = TRUE
    /\ trace_enabled = FALSE
    /\ traces = << >>
    /\ out = out_write_err(PyOutput_init, TEXT_RESET)
    /\ stdout = << >>
    /\ pos = "idle"
    /\ exc = EXC_NONE
    /\ last = "reset"
    /\ arg = 0
    /\ calls = MaxCalls - 1
    /\ iters = 0
    /\ AsmIdle

ExecNext == step

ExecSpec == ExecInit /\ [][ExecNext]_vars

(***************************************************************************)
(* the stores of the VM of vm.py alone                                     *)
(***************************************************************************)
\* ST R1,#1  STI R1,#1  STR R2,R1,#1  STR R2,R1,#-1
StoreWords == {12801, 45569, 29761, 29823}

\* a VM of vm.py after reset() whose caller has set PC, COND, R0, R1, R2 and
\* R7 and written the memory as in ExecInit, the instruction being a store
vm_StoreInit ==
    /\ \E pc \in {PC_START, UINT16_MAX - 1} : \E cond \in {FL_POS, FL_ZRO, FL_NEG} :
       \E a \in RegValues : \E b \in RegValues :
       \E w \in StoreWords : \E d \in DataValues :
          /\ reg = [r \in R |->
                      RegSet([x \in R |-> 0], r,
                             CASE r = PC -> pc
                               [] r = COND -> cond
                               [] r = R1 -> a
                               [] r = R2 -> b
                               [] r = R7 -> PC_START + 5
                               [] OTHER -> 0)[r]]
          /\ memory = [cells |-> ExecMemory(pc, w, d), len |-> UINT16_MAX]
    /\ mem = PyMemory_init
    /\ is_running = TRUE
    /\ trace_enabled \in BOOLEAN
    /\ traces = << >>
    /\ out = PyOutput_init
    /\ stdout = << >>
    /\ pos = "idle"
    /\ exc = EXC_NONE
    /\ last = "reset"
    /\ arg = 0
    /\ calls = MaxCalls - 1
    /\ iters = 0
    /\ code = << >>
    /\ line_number = 1
    /\ lc = 0
    /\ symbol_table = << >>
    /\ lines = << >>
    /\ data = << >>
    /\ bin_data = << >>
    /\ asm_pos = "idle"
    /\ asm_exc = EXC_NONE

\* vm.step() on the VM of vm.py, at a store
vm_step ==
    /\ calls < MaxCalls
    /\ calls' = calls + 1
    /\ last' = "vm_step"
    /\ ShiftR(MemGet(memory.cells, reg[PC]), 12) \in {OP_ST, OP_STI, OP_STR}
    /\ \E ready \in BOOLEAN : \E ch \in Keys :
          LET r == vm_VM_step([reg |-> reg, memory |-> memory,
                               is_running |-> is_running, traces |-> traces,
                               exc |-> EXC_NONE],
                              trace_enabled, ready, ch)
          IN /\ reg' = r.reg
             /\ memory' = r.memory
             /\ is_running' = r.is_running
             /\ traces' = r.traces
             /\ exc' = r.exc
    /\ UNCHANGED <<mem, out, stdout, trace_enabled, pos, iters, arg, asm_vars>>

vm_StoreNext == vm_step

vm_StoreSpec == vm_StoreInit /\ [][vm_StoreNext]_vars

(***************************************************************************)
(* Properties                                                              *)
(***************************************************************************)
\* the caller has just made the call name
IsCall(name) == calls' = calls + 1 /\ last' = name

\* one instruction is about to be executed by step or by the loop of
\* continue_
Executes ==
    /\ is_running
    /\ \/ IsCall("step")
       \/ pos = "continue" /\ iters' = iters + 1

\* the text ends with the line
EndsWith(text, line) ==
    /\ Len(text) >= Len(line)
    /\ SubSeq(text, Len(text) - Len(line) + 1, Len(text)) = line

\* the addresses a HALT may follow a sled at
SledEnds == PC_START .. (PC_START + SledLen)

\* continue_ is in its loop, the cells from PC up to h - 1 hold 0x16BF and
\* the cell h holds 0xF025
InSled(h) ==
    /\ pos = "continue"
    /\ is_running
    /\ reg[PC] <= h
    /\ \A a \in reg[PC] .. (h - 1) : MemGet(mem, a) = 5823
    /\ MemGet(mem, h) = 61477

\* continue_ has returned with the VM halted after the HALT at h
Returned(h) ==
    /\ pos = "idle"
    /\ last = "continue_"
    /\ exc = EXC_NONE
    /\ ~is_running
    /\ reg[PC] = h + 1

\* C1: when the cells from PC up to h - 1 hold 0x16BF and the cell h holds
\* 0xF025, continue_ on a running VM terminates, and when it returns the VM
\* is not running and PC = h + 1: the loop leaves such a state only by
\* returning so, and it does leave it.
C1_continue_runs_to_halt ==
    /\ (\E h \in SledEnds : InSled(h)) ~> (pos = "idle")
    /\ [][\A h \in SledEnds : InSled(h) => (InSled(h)' \/ Returned(h)')]_vars

\* continue_ has run the ten NOPs from 0x3000 and the HALT after them
C1_witness ==
    /\ Returned(PC_START + SledLen)
    /\ iters = SledLen + 1
    /\ \A a \in PC_START .. (PC_START + SledLen - 1) : MemGet(mem, a) = 5823

C3_reset_state ==
    [][IsCall("reset")
          => /\ \A r \in 0 .. 7 : reg'[r] = 0
             /\ reg'[8] = 12288
             /\ reg'[9] = 1
             /\ is_running'
             /\ exc' = EXC_NONE
             /\ out'.error =
                  out.error \o <<45, 45, 32, 82, 69, 83, 69, 84, 32, 45, 45, 10>>]_vars

\* reset was called on a VM that had run a program up to its HALT
C3_witness ==
    /\ last = "reset"
    /\ is_running
    /\ stdout # << >>
    /\ reg[3] = 0
    /\ EndsWith(out.error, <<45, 45, 32, 82, 69, 83, 69, 84, 32, 45, 45, 10>>)

\* the instruction at PC
Fetched == MemGet(mem, reg[PC])

\* the instruction at PC is a BR whose condition holds
TakenBR ==
    /\ Fetched \div 4096 = 0
    /\ BitAnd((Fetched \div 512) % 8, reg[COND]) # 0

Loaded == last = "load_binary" /\ arg \in LoadIds /\ Len(image_table[arg]) >= 2

\* the origin of the image load_binary was given: its first two bytes, big
\* end first
LoadedOrigin == image_table[arg][1] * 256 + image_table[arg][2]

\* the number of bytes after the origin
LoadedBytes == Len(image_table[arg]) - 2

\* the word i (from 0) of the payload, big end first
LoadedWord(i) == image_table[arg][3 + 2 * i] * 256 + image_table[arg][4 + 2 * i]

\* the cell of memory at a
Cell(a) == IF a \in DOMAIN mem THEN mem[a] ELSE 0

\* C5: load_binary of an image whose payload has an even number of bytes and
\* at most 0x10000 - origin words succeeds, and then the cell origin + i
\* holds the big-endian word i of the payload, for every i.
C5_load_binary_places_words ==
    (Loaded /\ LoadedBytes % 2 = 0 /\ LoadedBytes \div 2 <= 65536 - LoadedOrigin)
       => /\ exc = EXC_NONE
          /\ \A i \in 0 .. (LoadedBytes \div 2 - 1) :
                Cell(LoadedOrigin + i) = LoadedWord(i)

\* the image of origin 0 that fills memory was loaded: the first and the
\* last cell hold its first and last word
C5_witness ==
    /\ Loaded
    /\ LoadedOrigin = 0
    /\ LoadedBytes = 2 * 65536
    /\ exc = EXC_NONE
    /\ Cell(0) = 57005
    /\ Cell(65535) = 57005

\* C6 as first stated: load_binary fails with the too-big error whenever
\* the payload holds more than 0xFFFF - origin words.
C6_too_big_above_ffff_less_origin ==
    (Loaded /\ LoadedBytes \div 2 > 65535 - LoadedOrigin) => exc = EXC_TOO_BIG

\* C6: load_binary fails with the too-big error whenever the payload holds
\* more than 0x10000 - origin words.
C6_too_big_above_10000_less_origin ==
    (Loaded /\ LoadedBytes \div 2 > 65536 - LoadedOrigin) => exc = EXC_TOO_BIG

\* an image of two words for the last address was refused
C6_witness ==
    /\ Loaded
    /\ LoadedOrigin = 65535
    /\ LoadedBytes = 4
    /\ exc = EXC_TOO_BIG

\* C7: load_binary fails with the odd-size error whenever the payload has an
\* odd number of bytes and is not too large (no more than 2 * (0x10000 -
\* origin) bytes).
C7_odd_payload_refused ==
    (Loaded /\ LoadedBytes % 2 = 1 /\ LoadedBytes <= 2 * (65536 - LoadedOrigin))
       => exc = EXC_ODD

\* the image '0000 DEAD EE' was refused
C7_witness ==
    /\ Loaded
    /\ image_table[arg] = <<0, 0, 222, 173, 238>>
    /\ exc = EXC_ODD

\* C8: with tracing enabled every executed instruction appends to the traces
\* exactly the registers [R0..R7, PC, COND] as they are before its fetch; a
\* step or continue_ on a halted VM appends nothing; and no step changes the
\* traces already there.
C8_traces_are_snapshots_before_fetch ==
    [][/\ (Executes /\ trace_enabled)
            => traces' = Append(traces, <<reg[0], reg[1], reg[2], reg[3], reg[4],
                                          reg[5], reg[6], reg[7], reg[8], reg[9]>>)
       /\ (~is_running /\ (IsCall("step") \/ IsCall("continue_")))
            => traces' = traces
       /\ Len(traces') >= Len(traces)
       /\ SubSeq(traces', 1, Len(traces)) = traces]_vars

\* two instructions were traced and the registers changed between them
C8_witness ==
    /\ trace_enabled
    /\ Len(traces) >= 2
    /\ traces[1][9] = PC_START
    /\ traces[2][9] = PC_START + 1
    /\ traces[1][4] # traces[2][4]

\* the instruction at PC is the HALT trap
FetchedHalt == Fetched = 61477

\* C9: executing the HALT trap 0xF025 appends exactly '-- HALT --\n' to the
\* error channel, stops the VM and writes nothing to the output channel.
C9_halt_writes_to_error_channel ==
    [][(Executes /\ FetchedHalt)
          => /\ out'.error = out.error \o <<45, 45, 32, 72, 65, 76, 84, 32, 45, 45, 10>>
             /\ out'.output = out.output
             /\ ~is_running']_vars

\* C10: step or continue_ called on a halted VM raises an exception, one
\* whose message matches "HALTED" (none of the other exceptions does).
C10_halted_call_raises ==
    [][(~is_running /\ (IsCall("step") \/ IsCall("continue_")))
          => exc' \notin {EXC_NONE, EXC_BAD_OPCODE, EXC_BAD_TRAP, EXC_EXIT,
                          EXC_TOO_BIG, EXC_ODD, EXC_ASSERT}]_vars

\* C11: reset clears the traces: after a run with tracing enabled, a call of
\* reset leaves them empty.
C11_reset_clears_traces ==
    [][IsCall("reset") => traces' = << >>]_vars

PassOneLine ==
    /\ asm_pos = "pass_one"
    /\ line_number' = line_number + 1
    /\ Len(code[line_number]) > 0
    /\ code[line_number][1].v # ".END"

\* the tokens of that line after its leading label, if it has one
Driving ==
    IF code[line_number][1].t = "label" THEN Tail(code[line_number])
    ELSE code[line_number]

\* C13: pass one binds a label that leads a line to the location counter as
\* it is before the line, and then the counter is n after .ORIG n, one more
\* after an opcode mnemonic or .FILL, n more after .BLKW n, len(s) + 1 more
\* after .STRINGZ s, and the same after a line that holds only a label.
C13_label_bound_before_lc_advances ==
    [][PassOneLine
          => /\ code[line_number][1].t = "label"
                  => \E k \in 1 .. Len(symbol_table') :
                        /\ symbol_table'[k] = <<code[line_number][1].v, lc>>
                        /\ \A m \in 1 .. Len(symbol_table') :
                              symbol_table'[m][1] = symbol_table'[k][1] => m = k
             /\ asm_exc' = EXC_NONE
             /\ lc' = IF Len(Driving) = 0 THEN lc
                      ELSE IF Driving[1].t = "op" THEN lc + 1
                      ELSE IF Driving[1].v = ".ORIG" THEN Driving[2].v
                      ELSE IF Driving[1].v = ".FILL" THEN lc + 1
                      ELSE IF Driving[1].v = ".BLKW" THEN lc + Driving[2].v
                      ELSE lc + Len(Driving[2].v) + 1]_vars

\* pass one took 'B .STRINGZ "Hi"', '.BLKW 255' and 'A ADD R1, R1, #-1'
C13_witness ==
    /\ Len(lines) = 4
    /\ symbol_table = << <<"B", PC_START>>, <<"A", PC_START + 258>> >>
    /\ lc = PC_START + 259

\* the instruction of the line k that pass one kept, after its leading label
Instruction(k) ==
    IF lines[k].tokens[1].t = "label" THEN Tail(lines[k].tokens)
    ELSE lines[k].tokens

\* the line k holds an instruction that names a label
RefersTo(k) ==
    /\ Len(Instruction(k)) >= 2
    /\ Instruction(k)[1].v \in
          {"BRnzp", "BRz", "LD", "LDI", "LEA", "ST", "STI", "JSR"}
    /\ Instruction(k)[Len(Instruction(k))].t = "label"

\* the address the symbol table gives the label
AddressOf(label) ==
    LET k == CHOOSE k \in 1 .. Len(symbol_table) : symbol_table[k][1] = label
    IN symbol_table[k][2]

\* an address no source of the model reaches, for the pointer of LDI and STI
Probe == PC_START + 4096

\* the registers after the fetch of the instruction before pc: the condition
\* is ZRO, R1 holds 1 and the others 0
AtFetch(pc) ==
    [r \in 0 .. 9 |-> IF r = 8 THEN pc ELSE IF r = 9 THEN 2
                      ELSE IF r = 1 THEN 1 ELSE 0]

\* the handler of op, given the word instr fetched before pc, goes to target
\* (a branch or JSR), yields it (LEA), or reads or writes there: seen on a
\* memory that holds 1, or the pointer Probe, at target alone
Reaches(op, instr, pc, target) ==
    /\ instr \div 4096 = OPS[op]
    /\ CASE op \in {"BRnzp", "BRz"} -> br(instr, AtFetch(pc))[8] = target
         [] op = "JSR" -> jsr(instr, AtFetch(pc))[8] = target
         [] op = "LEA" -> lea(instr, AtFetch(pc))[1] = target
         [] op = "LD" -> ld(instr, AtFetch(pc), target :> 1)[1] = 1
         [] op = "LDI" ->
              ldi(instr, AtFetch(pc), (target :> Probe) @@ (Probe :> 1))[1] = 1
         [] op = "ST" -> MemGet(st(instr, AtFetch(pc), << >>), target) = 1
         [] op = "STI" ->
              MemGet(sti(instr, AtFetch(pc), target :> Probe), Probe) = 1

\* C14: when a BR, LD, LDI, LEA, ST, STI or JSR names a label whose address is
\* within the signed range of the offset (9 bits, 11 for JSR) from the
\* address after the instruction, the VM executing the assembled word from
\* memory, with PC incremented, reaches the address the symbol table gives
\* the label.
C14_label_operand_reaches_symbol ==
    asm_pos = "loaded"
       => \A k \in 2 .. Len(lines) :
             (/\ RefersTo(k)
              /\ LET d == AddressOf(Instruction(k)[Len(Instruction(k))].v)
                              - lines[k].lc
                 IN IF Instruction(k)[1].v = "JSR" THEN d \in -1024 .. 1023
                    ELSE d \in -256 .. 255)
                => Reaches(Instruction(k)[1].v, Cell(lines[k].lc - 1),
                           lines[k].lc,
                           AddressOf(Instruction(k)[Len(Instruction(k))].v))

\* 'LD R1, A / .BLKW 255 / A ADD R1, R1, #-1' was assembled and loaded: the
\* LD word holds the offset 255
C14_witness ==
    /\ asm_pos = "loaded"
    /\ symbol_table = << <<"A", PC_START + 256>> >>
    /\ Cell(PC_START) = 8959
    /\ Cell(PC_START + 256) = 4735

\* 'A / .BLKW 255 / STI R1, A' was assembled and loaded: the STI word holds
\* the offset -256
C14_witness_backwards ==
    /\ asm_pos = "loaded"
    /\ symbol_table = << <<"A", PC_START>> >>
    /\ Cell(PC_START + 255) = 45824

\* C15: after ADD, AND, NOT, LD, LDI, LDR or LEA is executed, COND is 2 (ZRO)
\* if the destination register now holds 0, 4 (NEG) if its bit 15 is set
\* and 1 (POS) otherwise, whatever the registers and the memory were.
C15_flags_follow_destination ==
    [][(Executes /\ Fetched \div 4096 \in {1, 5, 9, 2, 10, 6, 14})
          => /\ exc' = EXC_NONE
             /\ reg'[9] = IF reg'[(Fetched \div 512) % 8] = 0 THEN 2
                          ELSE IF reg'[(Fetched \div 512) % 8] >= 32768 THEN 4
                          ELSE 1]_vars

\* NOT R3, R1 was executed with R1 = 0 and COND = ZRO: R3 holds 0xFFFF and
\* COND is NEG
C15_witness ==
    /\ last = "step"
    /\ calls = MaxCalls
    /\ MemGet(mem, reg[PC] - 1) = 38527
    /\ reg[1] = 0
    /\ reg[3] = 65535
    /\ reg[COND] = 4

\* C16: in every state reached from the construction of the VM by reset,
\* load_binary, step and continue_ over the programs loaded and the words
\* written, COND holds one of 1 (POS), 2 (ZRO), 4 (NEG).
C16_cond_is_one_flag ==
    reg[9] \in {1, 2, 4}

\* a step from 0x3000 left a negative result and COND = NEG, and a reset
\* before it had set COND = POS
C16_witness ==
    /\ last = "step"
    /\ reg[COND] = 4
    /\ reg[PC] = PC_START + 1
    /\ out.error # << >>

\* C17: each of the ten registers holds a value in 0 .. 65535 in every state,
\* a write of v storing v mod 2^16: ADD stores the sum of its operands mod
\* 2^16 (0 for 0xFFFF and 1), NOT of x stores 0xFFFF - x, a register that
\* holds 0xFFFF and is not written still reads 0xFFFF, and the fetch leaves
\* PC = 0 when it was 0xFFFF.
C17_registers_hold_16_bits ==
    /\ [](\A r \in 0 .. 9 : reg[r] \in 0 .. 65535)
    /\ [][Executes =>
            /\ (Fetched \div 4096 = 1 /\ (Fetched \div 32) % 2 = 1
                   /\ reg[(Fetched \div 64) % 8] = 65535 /\ Fetched % 32 = 1)
                  => reg'[(Fetched \div 512) % 8] = 0
            /\ (Fetched \div 4096 = 1 /\ (Fetched \div 32) % 2 = 0)
                  => reg'[(Fetched \div 512) % 8] =
                       (reg[(Fetched \div 64) % 8] + reg[Fetched % 8]) % 65536
            /\ Fetched \div 4096 = 9
                  => reg'[(Fetched \div 512) % 8] =
                       65535 - reg[(Fetched \div 64) % 8]
            /\ (reg[2] = 65535 /\ Fetched \div 4096 \in {1, 5, 9}
                   /\ (Fetched \div 512) % 8 # 2)
                  => reg'[2] = 65535
            /\ (reg[8] = 65535 /\ Fetched \div 4096 \notin {0, 4, 12})
                  => reg'[8] = 0]_vars

\* ADD R1, R1, #1 was executed at 0xFFFF with R1 = 0xFFFF and R2 = 0xFFFF:
\* R1 and PC hold 0, R2 still 0xFFFF
C17_witness ==
    /\ last = "step"
    /\ calls = MaxCalls
    /\ MemGet(mem, 65535) = 4705
    /\ reg[PC] = 0
    /\ reg[1] = 0
    /\ reg[2] = 65535
    /\ reg[COND] = 2

\* C18: a write m[a] <- v of any value, those of 2^16 and above included, is
\* followed by reads of its low 16 bits at a mod 2^16, and leaves every other
\* cell as it was.
C18_write_keeps_low_16_bits ==
    [][IsCall("poke")
          => /\ exc' = EXC_NONE
             /\ MemGet(mem', arg'[1] % 65536) = arg'[2] % 65536
             /\ \A a \in (DOMAIN mem \cup DOMAIN mem') \ {arg'[1] % 65536} :
                   MemGet(mem', a) = MemGet(mem, a)]_vars

\* C19: after any loads, those that fail included, the memory is 65536
\* cells long and holds no cell outside 0x0000 .. 0xFFFF, so that every
\* address can be read.
C19_memory_spans_all_addresses ==
    /\ memory.len = 65536
    /\ \A a \in DOMAIN memory.cells : a \in 0 .. 65535

\* R0 addresses the words 'Hi', '!' packed two characters to a word and
\* ended by a zero word
AtPackedString ==
    /\ MemGet(mem, reg[0]) = 26952
    /\ MemGet(mem, reg[0] + 1) = 33
    /\ MemGet(mem, reg[0] + 2) = 0

\* C20: the characters of OUT, PUTS, PUTSP and IN (its prompt, then its
\* echo) are appended to the output channel as the program emits them, and
\* RESET, HALT and HALTED never are.
C20_program_output_reaches_output_channel ==
    [][/\ (Executes /\ Fetched = 61473)
            => out'.output = out.output \o <<reg[0] % 256>>
       /\ (Executes /\ Fetched = 61474 /\ AtPackedString)
            => out'.output = out.output \o <<26952, 33>>
       /\ (Executes /\ Fetched = 61476 /\ AtPackedString)
            => out'.output = out.output \o <<72, 105, 33>>
       /\ (Executes /\ Fetched = 61475)
            => \/ out'.output = out.output \o TEXT_PROMPT \o <<reg'[0]>>
               \/ exc' # EXC_NONE /\ out'.output = out.output \o TEXT_PROMPT
       /\ (IsCall("reset") \/ (Executes /\ Fetched = 61477)
             \/ (~is_running /\ (IsCall("step") \/ IsCall("continue_"))))
            => out'.output = out.output]_vars

\* the number of words from R0 up to the first zero word, or up to the end
\* of memory when no word from R0 on is zero
WordsAtR0 ==
    CHOOSE n \in 0 .. 65536 - reg[0] :
       /\ \A j \in 0 .. (n - 1) : MemGet(mem, reg[0] + j) # 0
       /\ reg[0] + n = 65536 \/ MemGet(mem, reg[0] + n) = 0

\* C21: PUTS appends to the output channel one character for each word at
\* R0, R0 + 1, ... before the first zero word (the character whose code is
\* the word) and nothing for the zero word; it stops at the last address
\* when no zero word follows R0; it raises nothing and leaves R0..R7, COND
\* and the memory as they were.
C21_puts_writes_words_up_to_zero ==
    [][(Executes /\ Fetched = 61474)
          => /\ exc' = EXC_NONE
             /\ Len(out'.output) = Len(out.output) + WordsAtR0
             /\ SubSeq(out'.output, 1, Len(out.output)) = out.output
             /\ \A j \in 1 .. WordsAtR0 :
                   out'.output[Len(out.output) + j] = MemGet(mem, reg[0] + j - 1)
             /\ \A r \in (0 .. 7) \cup {9} : reg'[r] = reg[r]
             /\ mem' = mem
             /\ out'.error = out.error
             /\ is_running']_vars

\* PUTS was executed with R0 at the two words of the string
C21_witness ==
    /\ last = "step"
    /\ MemGet(mem, reg[PC] - 1) = 61474
    /\ reg[0] = PC_START + 16
    /\ out.output = <<26952, 33>>

\* PUTS was executed with R0 at the last address and no zero word there
C21_witness_no_zero ==
    /\ last = "step"
    /\ MemGet(mem, reg[PC] - 1) = 61474
    /\ reg[0] = 65535
    /\ out.output = <<32767>>

\* C22: a read of the address 0xFE00 (KBSR), here the read LDI R3, #1 makes
\* through the pointer 0xFE00, polls the input first: it leaves 0x8000 in
\* KBSR and the key's byte in KBDR (0xFE02), or 0 in KBSR, and returns what
\* it left, never the value written there before.
C22_kbsr_read_polls_input ==
    [][(Executes /\ Fetched = 42497 /\ MemGet(mem, reg[8] + 2) = 65024)
          => \/ /\ reg'[3] = 32768
                /\ MemGet(mem', 65024) = 32768
                /\ MemGet(mem', 65026) \in 0 .. 255
             \/ /\ reg'[3] = 0
                /\ MemGet(mem', 65024) = 0]_vars

\* C23: a step raises the bad-opcode error when the opcode of the
\* instruction fetched is 8 (RTI) or 13 (RES), whatever its low 12 bits, and
\* for no other opcode.
C23_rti_and_res_are_bad_opcodes ==
    [][Executes
          => (exc' = "Bad opcode" <=> Fetched \div 4096 \in {8, 13})]_vars

\* the word 0xDFFF was fetched at 0x3000 and refused
C23_witness ==
    /\ last = "step"
    /\ exc = "Bad opcode"
    /\ MemGet(mem, PC_START) = 57343
    /\ reg[PC] = PC_START + 1

\* the kept line k is an ADD or AND whose immediate is outside -16 .. 15, or
\* an LDR or STR whose offset is outside -32 .. 31
ImmediateTooWide(k) ==
    LET ins == IF lines[k].tokens[1].t = "label" THEN Tail(lines[k].tokens)
               ELSE lines[k].tokens
    IN /\ Len(ins) = 4
       /\ ins[4].t = "const"
       /\ \/ ins[1].v \in {"ADD", "AND"} /\ ins[4].v \notin -16 .. 15
          \/ ins[1].v \in {"LDR", "STR"} /\ ins[4].v \notin -32 .. 31

\* C24: when a source holds an ADD or AND with an immediate outside
\* -16 .. 15, or an LDR or STR with an offset outside -32 .. 31, pass two
\* fails with an error and no word is emitted for it.
C24_wide_immediate_is_refused ==
    [][(asm_pos = "pass_two" /\ \E k \in 2 .. Len(lines) : ImmediateTooWide(k))
          => /\ asm_pos' = "failed"
             /\ asm_exc' # EXC_NONE
             /\ bin_data' = << >>]_vars

\* the kept line k names a label that the symbol table holds
RefersToDefined(k) ==
    /\ RefersTo(k)
    /\ \E m \in 1 .. Len(symbol_table) :
          symbol_table[m][1] = Instruction(k)[Len(Instruction(k))].v

\* the label the line k names is outside the signed range of the offset
\* (9 bits, 11 for JSR) measured from the address after the instruction
OutOfReach(k) ==
    LET d == AddressOf(Instruction(k)[Len(Instruction(k))].v) - lines[k].lc
    IN IF Instruction(k)[1].v = "JSR" THEN d \notin -1024 .. 1023
       ELSE d \notin -256 .. 255

\* C25: when a BR, LD, LDI, LEA, ST, STI or JSR names a label outside the
\* range of its offset field, measured from the address after the
\* instruction, pass two fails with an error and assemble returns no object.
C25_label_out_of_reach_is_refused ==
    [][(/\ asm_pos = "pass_two"
        /\ \A k \in 2 .. Len(lines) : RefersTo(k) => RefersToDefined(k)
        /\ \E k \in 2 .. Len(lines) : RefersToDefined(k) /\ OutOfReach(k))
          => /\ asm_pos' = "failed"
             /\ asm_exc' # EXC_NONE
             /\ bin_data' = << >>]_vars

\* the kept line k is an instruction or a .FILL that names a label
NamesLabel(k) ==
    /\ Len(Instruction(k)) >= 2
    /\ Instruction(k)[1].t \in {"op", "dot"}
    /\ Instruction(k)[Len(Instruction(k))].t = "label"

\* the label is defined on one of the lines of the source before .END
DefinedBeforeEnd(label) ==
    \E k \in 2 .. Len(code) :
       /\ code[k][1] = [t |-> "label", v |-> label]
       /\ \A j \in 2 .. k : code[j][1].v # ".END"

\* C26: when an instruction or a .FILL names a label that no line before
\* .END defines, assemble fails and returns no object and no symbol table;
\* when every label named is defined before .END, on an earlier line or a
\* later one, the source is assembled.
C26_undefined_label_is_refused ==
    [][asm_pos = "pass_two"
          => IF \E k \in 2 .. Len(lines) :
                   NamesLabel(k)
                   /\ ~DefinedBeforeEnd(Instruction(k)[Len(Instruction(k))].v)
             THEN /\ asm_pos' = "failed"
                  /\ asm_exc' = "KeyError"
                  /\ bin_data' = << >>
                  /\ data' = << >>
             ELSE /\ asm_pos' = "assembled"
                  /\ asm_exc' = EXC_NONE]_vars

\* 'LD R1, A' (or another of the instructions) was followed by .END and by a
\* line that defines A: the assembly failed
C26_witness ==
    /\ asm_pos = "failed"
    /\ asm_exc = "KeyError"
    /\ Len(code) = 4
    /\ code[2][Len(code[2])] = [t |-> "label", v |-> "A"]
    /\ code[3][1].v = ".END"
    /\ code[4][1] = [t |-> "label", v |-> "A"]

\* '.FILL A' came before the line that defines A, and the source was
\* assembled
C26_witness_forward ==
    /\ asm_pos = "assembled"
    /\ Len(code) = 3
    /\ code[2][1].v = ".FILL"
    /\ code[2][2] = [t |-> "label", v |-> "A"]
    /\ code[3][1] = [t |-> "label", v |-> "A"]
    /\ data[2] = PC_START + 1

\* C27: for a width w of 5, 6, 9 or 11 and v in 0 .. 2^w - 1,
\* sign_extend(v, w) is in 0 .. 65535, and it is v when bit w - 1 of v is
\* clear and v - 2^w + 2^16 when it is set.
C27_sign_extend_is_twos_complement ==
    last = "sign_extend"
       => /\ arg[2] \in {5, 6, 9, 11}
          /\ arg[1] \in 0 .. (2 ^ arg[2] - 1)
          /\ arg[3] \in 0 .. 65535
          /\ arg[3] = IF arg[1] < 2 ^ (arg[2] - 1) THEN arg[1]
                      ELSE arg[1] - 2 ^ arg[2] + 65536

\* sign_extend(0x400, 11) was called: the lowest negative PCoffset11
C27_witness ==
    /\ last = "sign_extend"
    /\ arg = <<1024, 11, 64512>>

\* the low n bits of the instruction at PC read as a signed number
SignedField(n) ==
    IF (Fetched % (2 ^ n)) >= 2 ^ (n - 1) THEN (Fetched % (2 ^ n)) - 2 ^ n
    ELSE Fetched % (2 ^ n)

\* C28: JSR and JSRR leave in R7 the address of the following instruction;
\* JSR (bit 11 set) leaves PC at that address plus the signed PCoffset11,
\* modulo 2^16, and JSRR (bit 11 clear) leaves PC at the value BaseR held
\* before the instruction, R7 as BaseR included.
C28_jsr_links_and_jumps ==
    [][(Executes /\ Fetched \div 4096 = 4)
          => /\ exc' = EXC_NONE
             /\ reg'[7] = (reg[8] + 1) % 65536
             /\ reg'[8] = IF (Fetched \div 2048) % 2 = 1
                          THEN (reg[8] + 1 + SignedField(11) + 65536) % 65536
                          ELSE reg[(Fetched \div 64) % 8]]_vars

\* C29: BR leaves PC at the incremented PC plus the signed PCoffset9, modulo
\* 2^16, exactly when bits 11..9 of the instruction share a set bit with
\* COND (bit 11 with NEG = 4, bit 10 with ZRO = 2, bit 9 with POS = 1), and
\* at the incremented PC otherwise, as it always does when bits 11..9 are
\* clear; it changes neither R0..R7 nor COND nor the memory.
C29_br_follows_cond ==
    [][(Executes /\ Fetched \div 4096 = 0)
          => /\ exc' = EXC_NONE
             /\ reg'[8] =
                  IF \/ (Fetched \div 2048) % 2 = 1 /\ (reg[9] \div 4) % 2 = 1
                     \/ (Fetched \div 1024) % 2 = 1 /\ (reg[9] \div 2) % 2 = 1
                     \/ (Fetched \div 512) % 2 = 1 /\ reg[9] % 2 = 1
                  THEN (reg[8] + 1 + SignedField(9) + 65536) % 65536
                  ELSE (reg[8] + 1) % 65536
             /\ \A r \in (0 .. 7) \cup {9} : reg'[r] = reg[r]
             /\ mem' = mem]_vars

\* BRz #-2 was executed at 0x3000 with COND = ZRO: PC is 0x2FFF
C29_witness ==
    /\ last = "step"
    /\ MemGet(mem, PC_START) = 1534
    /\ reg[COND] = 2
    /\ reg[PC] = PC_START - 1

\* BRn #1 was executed at 0x3000 with COND = POS: PC is 0x3001
C29_witness_not_taken ==
    /\ last = "step"
    /\ MemGet(mem, PC_START) = 2049
    /\ reg[COND] = 1
    /\ reg[PC] = PC_START + 1

\* the bits 0..15 that a and b both have set, from bit i upwards
RECURSIVE CommonBits(_, _, _)
CommonBits(a, b, i) ==
    IF i = 16 THEN 0
    ELSE ((a \div (2 ^ i)) % 2) * ((b \div (2 ^ i)) % 2) * (2 ^ i)
         + CommonBits(a, b, i + 1)

\* the second operand of the ADD or AND at PC as a 16-bit word: the signed
\* imm5 when bit 5 is set, the value of SR2 otherwise
Operand ==
    IF (Fetched \div 32) % 2 = 1 THEN (SignedField(5) + 65536) % 65536
    ELSE reg[Fetched % 8]

\* C30: ADD leaves in DR the sum of SR1 and the operand modulo 2^16 and AND
\* their bitwise and, the operand being the signed imm5 when bit 5 is set and
\* SR2 otherwise, both taken from the registers as they were before the
\* instruction, DR among them; no other register of R0..R7 changes.
C30_add_and_store_in_dr ==
    [][(Executes /\ Fetched \div 4096 \in {1, 5})
          => /\ exc' = EXC_NONE
             /\ reg'[(Fetched \div 512) % 8] =
                  IF Fetched \div 4096 = 1
                  THEN (reg[(Fetched \div 64) % 8] + Operand) % 65536
                  ELSE CommonBits(reg[(Fetched \div 64) % 8], Operand, 0)
             /\ \A r \in (0 .. 7) \ {(Fetched \div 512) % 8} : reg'[r] = reg[r]]_vars

\* ADD R2, R1, R2 was executed at 0x3000 with R1 = 1 and R2 = 0xFFFF: R2 is 0
C30_witness ==
    /\ last = "step"
    /\ MemGet(mem, PC_START) = 5186
    /\ reg[PC] = PC_START + 1
    /\ reg[R1] = 1
    /\ reg[R2] = 0

\* AND R3, R1, #-1 was executed at 0x3000 with R1 = 0x8000: R3 is 0x8000
C30_witness_and ==
    /\ last = "step"
    /\ MemGet(mem, PC_START) = 22143
    /\ reg[PC] = PC_START + 1
    /\ reg[R1] = 32768
    /\ reg[3] = 32768

\* the memory cell at address a modulo 2^16
CellAt(a) == Cell((a + 65536) % 65536)

\* the address that the load or store at PC computes first: the incremented
\* PC plus the signed offset9, or BaseR plus the signed offset6 for LDR and STR
EffectiveAddress ==
    IF Fetched \div 4096 \in {6, 7}
    THEN reg[(Fetched \div 64) % 8] + SignedField(6)
    ELSE reg[8] + 1 + SignedField(9)

\* C31: LD leaves in DR the cell at the incremented PC plus the signed
\* offset9, LDI the cell that this cell points to, LDR the cell at BaseR plus
\* the signed offset6 and LEA the address itself, every address modulo 2^16;
\* none of them changes the memory or a register of R0..R7 other than DR.
C31_loads_read_effective_address ==
    [][(Executes /\ Fetched \div 4096 \in {2, 6, 10, 14})
          => /\ exc' = EXC_NONE
             /\ reg'[(Fetched \div 512) % 8] =
                  CASE Fetched \div 4096 = 2 -> CellAt(EffectiveAddress)
                    [] Fetched \div 4096 = 6 -> CellAt(EffectiveAddress)
                    [] Fetched \div 4096 = 10 -> CellAt(CellAt(EffectiveAddress))
                    [] Fetched \div 4096 = 14 -> (EffectiveAddress + 65536) % 65536
             /\ \A r \in (0 .. 7) \ {(Fetched \div 512) % 8} : reg'[r] = reg[r]
             /\ mem' = mem]_vars

\* LDI R3, #1 was executed at 0x3000 with the pointer 0x8000 in the cell
\* 0x3002: R3 holds the cell 0x8000
C31_witness ==
    /\ last = "step"
    /\ MemGet(mem, PC_START) = 42497
    /\ MemGet(mem, PC_START + 2) = 32768
    /\ reg[PC] = PC_START + 1
    /\ reg[3] = 65535

\* LDR R3, R1, #-1 was executed with R1 = 0: R3 holds the cell 0xFFFF
C31_witness_wraps ==
    /\ last = "step"
    /\ MemGet(mem, PC_START) = 26239
    /\ reg[PC] = PC_START + 1
    /\ reg[R1] = 0
    /\ reg[3] = 32767

\* the cell at address a of the cells m
CellOf(m, a) == IF a \in DOMAIN m THEN m[a] ELSE 0

\* the low n bits of the word instr read as a signed number
SignedBits(instr, n) ==
    IF (instr % (2 ^ n)) >= 2 ^ (n - 1) THEN (instr % (2 ^ n)) - 2 ^ n
    ELSE instr % (2 ^ n)

\* the address the store instr writes to, on the registers and the cells
\* before it: the incremented PC plus offset9 for ST, the cell there for STI,
\* BaseR plus offset6 for STR
StoreAddress(instr, before) ==
    CASE instr \div 4096 = 3 ->
           (reg[8] + 1 + SignedBits(instr, 9) + 65536) % 65536
      [] instr \div 4096 = 11 ->
           CellOf(before, (reg[8] + 1 + SignedBits(instr, 9) + 65536) % 65536)
      [] instr \div 4096 = 7 ->
           (reg[(instr \div 64) % 8] + SignedBits(instr, 6) + 65536) % 65536

\* the store instr has gone well: the cell at its address holds the value of
\* SR, which the matching load at the same address then reads, every other
\* cell is as before and so are R0..R7 and COND
Stored(instr, before, after) ==
    /\ exc' = EXC_NONE
    /\ CellOf(after, StoreAddress(instr, before)) = reg[(instr \div 512) % 8]
    /\ \A a \in (DOMAIN before \cup DOMAIN after) \ {StoreAddress(instr, before)} :
          CellOf(after, a) = CellOf(before, a)
    /\ \A r \in (0 .. 7) \cup {9} : reg'[r] = reg[r]

\* C32: ST, STI and STR, in the VM of pyvm.py and in the VM of vm.py, write
\* the value of SR to one cell, at the incremented PC plus the signed offset9,
\* at the address held by that cell, and at BaseR plus the signed offset6
\* (modulo 2^16), and leave every other cell, R0..R7 and COND as they were;
\* the matching load at the same address then reads the value back.
C32_stores_write_one_cell ==
    [][/\ (Executes /\ Fetched \div 4096 \in {3, 7, 11})
             => Stored(Fetched, mem, mem')
       /\ (IsCall("vm_step") /\ is_running)
             => /\ Stored(CellOf(memory.cells, reg[8]), memory.cells, memory'.cells)
                /\ memory'.len = memory.len]_vars

\* the registers, memory, running flag, sinks and trace a call leaves, s being
\* what the call found
LeftBy(s) ==
    /\ reg' = s.reg
    /\ mem' = s.mem
    /\ is_running' = s.is_running
    /\ out' = s.out
    /\ stdout' = s.stdout
    /\ traces' = s.traces

\* C33: continue_ on a running VM changes nothing before its loop; every turn
\* of the loop finds the VM running and leaves the registers, the memory, the
\* running flag, both sinks and the trace as a call of step on the same state
\* leaves them, with no '-- HALTED --' line and, when tracing, one snapshot
\* more; the loop goes on exactly while the VM runs.  continue_ thus ends
\* where repeated calls of step end.
C33_continue_is_repeated_step ==
    [][/\ (IsCall("continue_") /\ is_running)
             => LeftBy(Machine) /\ pos' = "continue"
       /\ LoopTurn
             => /\ is_running
                /\ \E ch \in Keys : LeftBy(VM_step(Machine, trace_enabled, ch))
                /\ ~(\E n \in 1 .. Len(out'.error) :
                        /\ n > Len(out.error)
                        /\ EndsWith(SubSeq(out'.error, 1, n), TEXT_HALTED))
                /\ Len(traces') = Len(traces) + (IF trace_enabled THEN 1 ELSE 0)
                /\ (pos' = "continue") = (is_running' /\ exc' = EXC_NONE)]_vars

\* continue_ has run a traced program of several instructions to its HALT
C33_witness ==
    /\ last = "continue_"
    /\ pos = "idle"
    /\ ~is_running
    /\ exc = EXC_NONE
    /\ trace_enabled
    /\ iters >= 2
    /\ Len(traces) = iters

\* the words asm_pass_two emits for the entry k of lines
EmittedFor(k) == pass_two_line(lines[k].tokens, symbol_table, lines[k].lc).words

\* the number of words asm_pass_two emits for the entries of lines after
\* .ORIG and before the entry k
RECURSIVE EmittedBefore(_)
EmittedBefore(k) ==
    IF k <= 2 THEN 0 ELSE EmittedBefore(k - 1) + Len(EmittedFor(k - 1))

\* C34: once a source is assembled, the location counter pass one advanced
\* over each line after .ORIG by the number of words pass two emits for the
\* line, and every label of the symbol table is at the origin plus the number
\* of words emitted for the lines before a line that bears the label.
C34_pass_one_counts_emitted_words ==
    asm_pos \in {"assembled", "loaded"}
       => /\ \A k \in 2 .. Len(lines) :
                lines[k].lc - lines[k - 1].lc = Len(EmittedFor(k))
          /\ \A i \in 1 .. Len(symbol_table) :
                \E k \in 2 .. Len(lines) :
                   /\ lines[k].tokens[1] = Token(Type_LABEL, symbol_table[i][1])
                   /\ symbol_table[i][2] = lines[1].lc + EmittedBefore(k)

\* the cells that the image id covers: as many as its payload has whole
\* words, from its origin on
CoveredBy(id) ==
    LET image == image_table[id]
        origin == IF Len(image) >= 2 THEN image[1] * 256 + image[2]
                  ELSE IF Len(image) = 1 THEN image[1] ELSE 0
        n == IF Len(image) >= 2 THEN (Len(image) - 2) \div 2 ELSE 0
    IN origin .. (origin + n - 1)

\* C35: a load_binary that succeeds leaves every cell outside the cells its
\* image covers (origin .. origin + N - 1 for N payload words) as it was, and
\* a load_binary that fails leaves every cell as it was.
C35_load_binary_changes_covered_cells_only ==
    [][IsCall("load_binary")
          => \A a \in DOMAIN mem \cup DOMAIN mem' :
                (exc' # EXC_NONE \/ a \notin CoveredBy(arg'))
                   => CellOf(mem', a) = CellOf(mem, a)]_vars

\* '3000 E005 2213' was loaded, and then an image at 0xFFFE: the first is
\* still in memory
C35_witness ==
    /\ Loaded
    /\ exc = EXC_NONE
    /\ LoadedOrigin = 65534
    /\ LoadedBytes = 4
    /\ Cell(65534) # 0
    /\ Cell(PC_START) = 57349
    /\ Cell(PC_START + 1) = 8723

\* '3000 E005 2213' was loaded, and then the load of '0000 DEAD EE' failed
C35_witness_failed ==
    /\ Loaded
    /\ exc = EXC_ODD
    /\ Cell(0) = 0
    /\ Cell(PC_START) = 57349

\* the instruction at PC is RTI, RES or a TRAP whose vector is none of
\* 0x20 .. 0x25
FetchedRaises ==
    \/ Fetched \div 4096 \in {8, 13}
    \/ Fetched \div 4096 = 15 /\ Fetched % 256 \notin 32 .. 37

\* C36: a step that raises on RTI, RES or a TRAP of unknown vector leaves PC
\* incremented and, when tracing, the trace one snapshot longer, and leaves
\* R0..R7, COND, the memory and the running flag (true) as they were; the
\* step that follows is carried out on the next instruction (seen where that
\* is a BR that is not taken: PC moves on by one and nothing is raised).
C36_raising_step_is_not_rolled_back ==
    [][/\ (Executes /\ FetchedRaises)
             => /\ exc' # EXC_NONE
                /\ reg'[8] = (reg[8] + 1) % 65536
                /\ Len(traces') = Len(traces) + (IF trace_enabled THEN 1 ELSE 0)
                /\ \A r \in (0 .. 7) \cup {9} : reg'[r] = reg[r]
                /\ mem' = mem
                /\ is_running' = TRUE
       /\ (IsCall("step") /\ last = "step" /\ exc \in {"Bad opcode", EXC_BAD_TRAP}
                          /\ Fetched \div 512 = 0)
             => /\ is_running
                /\ exc' = EXC_NONE
                /\ reg'[8] = (reg[8] + 1) % 65536]_vars

\* a traced step has raised on the RES written at 0x3000
C36_witness ==
    /\ last = "step"
    /\ exc = "Bad opcode"
    /\ MemGet(mem, PC_START) = 53248
    /\ reg[PC] = PC_START + 1
    /\ is_running
    /\ trace_enabled
    /\ Len(traces) = 1

\* a step has raised on the unknown TRAP written at 0x3000 and the step
\* after it has passed the BR at 0x3001
C36_witness_following ==
    /\ last = "step"
    /\ exc = EXC_NONE
    /\ calls = 4
    /\ MemGet(mem, PC_START) = 61478
    /\ reg[PC] = PC_START + 2
    /\ is_running

\* C37: reset leaves every memory cell and the text held in the output sink
\* as they were, and leaves the VM running at 0x3000: a program loaded before
\* the reset is in memory afterwards and can be run again from its start.
C37_reset_keeps_memory_and_output ==
    [][IsCall("reset")
          => /\ mem' = mem
             /\ out'.output = out.output
             /\ reg'[8] = 12288
             /\ is_running' = TRUE]_vars

\* a loaded program has run to its HALT and written to the output sink, and
\* the VM was reset: the program and the text are still there
C37_witness ==
    /\ last = "reset"
    /\ calls >= 3
    /\ Len(out.output) > 0
    /\ MemGet(mem, PC_START) # 0
    /\ reg[PC] = PC_START
    /\ is_running

\* the line e of the source is the first whose first token is .END
FirstEnd(e) ==
    /\ e \in 1 .. Len(code)
    /\ code[e][1].v = ".END"
    /\ \A k \in 1 .. (e - 1) : code[k][1].v # ".END"

\* C38: of a source with a line .END, pass one keeps only lines before the
\* first .END, every label of the symbol table is bound by one of those
\* lines, to the location counter before it, and the object holds the origin
\* and the words of those lines alone.
C38_pass_one_stops_at_end ==
    \A e \in 1 .. Len(code) :
       FirstEnd(e)
          => /\ line_number <= e + 1
             /\ Len(lines) <= e - 1
             /\ \A k \in 1 .. Len(lines) : lines[k].tokens = code[k]
             /\ \A i \in 1 .. Len(symbol_table) :
                   \E k \in 2 .. Len(lines) :
                      /\ code[k][1] = Token(Type_LABEL, symbol_table[i][1])
                      /\ symbol_table[i][2] = lines[k - 1].lc
             /\ asm_pos \in {"assembled", "loaded"}
                   => /\ Len(lines) = e - 1
                      /\ Len(data) = 1 + EmittedBefore(e)

\* HALT, .END and a line that binds B were assembled: the object holds the
\* origin and the HALT, and no symbol is bound
C38_witness ==
    /\ asm_pos = "assembled"
    /\ Len(code) = 4
    /\ code[2] = <<Token(Type_OP, "HALT")>>
    /\ FirstEnd(3)
    /\ code[4] = <<Token(Type_LABEL, "B"), Token(Type_DOT, ".FILL"), Token(Type_CONST, 5)>>
    /\ symbol_table = << >>
    /\ data = <<12288, 61477>>

\* the condition bits 11..9 that the letters of a BR mnemonic name, n as 4,
\* z as 2 and p as 1; the bare BR stands for BRnzp
NamedBits(m) ==
    CASE m = "BR" -> 7
      [] m = "BRn" -> 4
      [] m = "BRz" -> 2
      [] m = "BRp" -> 1
      [] m = "BRzp" -> 3
      [] m = "BRnp" -> 5
      [] m = "BRnz" -> 6
      [] m = "BRnzp" -> 7

\* C39: the BR mnemonic of line 3, whose target is two words on, is encoded
\* as opcode 0 with the condition bits its letters name and the offset 1 (the
\* bare BR as BRnzp is); and the step that executes it at 0x3001 branches to
\* 0x3003 exactly when COND is a flag the mnemonic names, and goes to 0x3002
\* otherwise.
C39_br_mnemonics_name_their_conditions ==
    [][/\ asm_pos' \in {"assembled", "loaded"}
             => data'[3] = NamedBits(code[3][1].v) * 512 + 1
       /\ (IsCall("step") /\ is_running /\ asm_pos = "loaded" /\ reg[8] = 12289)
             => reg'[8] = IF (NamedBits(code[3][1].v) \div reg[9]) % 2 = 1
                          THEN 12291 ELSE 12290]_vars

\* BRnp was assembled and executed with COND = ZRO: it did not branch
C39_witness ==
    /\ last = "step"
    /\ asm_pos = "loaded"
    /\ code[3][1].v = "BRnp"
    /\ reg[COND] = FL_ZRO
    /\ reg[PC] = PC_START + 2

\* the bare BR was assembled and executed with COND = NEG: it branched
C39_witness_bare ==
    /\ last = "step"
    /\ asm_pos = "loaded"
    /\ code[3][1].v = "BR"
    /\ MemGet(mem, PC_START + 1) = 3585
    /\ reg[COND] = FL_NEG
    /\ reg[PC] = PC_START + 3

\* C40: a line of pass one leaves every entry of the symbol table where it
\* was and with the address it had, the entry of a label the line defines
\* again included, and adds at most one entry, for a label not yet bound, at
\* the end: the table lists the labels in the order of their first
\* definition.
C40_symbol_table_keeps_entries ==
    [][asm_pos = "pass_one"
          => /\ \A i \in 1 .. Len(symbol_table) :
                   /\ i <= Len(symbol_table')
                   /\ symbol_table'[i] = symbol_table[i]
             /\ Len(symbol_table') <= Len(symbol_table) + 1
             /\ Len(symbol_table') = Len(symbol_table) + 1
                   => \A i \in 1 .. Len(symbol_table) :
                         symbol_table[i][1] # symbol_table'[Len(symbol_table')][1]]_vars

====
